---- MODULE Spec2Model ----
(***************************************************************************)
(* Ainoflow n8n nodes: the item-loop driver (execute), the paginated       *)
(* "return all" collectors, the single-request operations and the shared   *)
(* error normalizer (handleApiError), as a state machine.                  *)
(*                                                                         *)
(* Nodes modelled:                                                         *)
(*   "files"          AinoflowFiles   (nodes/AinoflowFiles)                *)
(*   "convert"        AinoflowConvert (second half of the same file)       *)
(*   "storage"        AinoflowStorage using GenericFunctions (part_001)    *)
(*   "storageInline"  AinoflowStorage with its own inline handleApiError   *)
(*                    (part_002)                                           *)
(***************************************************************************)
EXTENDS Integers, Sequences, FiniteSets, TLC

VARIABLES
    ctx,        \* the IExecuteFunctions context: node, resource, operation,
                \* continueOnFail(), number of input items, list parameters
    remote,     \* the remote API: size of the listed collection, the status
                \* it fails requests with, and the input items whose
                \* mutation it has applied
    itemIndex,  \* the for-loop counter of execute
    pc,         \* where execute is: "loop", "await", "done", "raised"
    local,      \* locals of the operation running for the current item
                \* (between items: how many requests the last one issued)
    inflight,   \* HTTP requests issued and not yet answered
    returnData, \* the output list accumulated by execute
    thrown,     \* the error execute raised (NoError while none)
    outcome,    \* per input item: "pending", "succeeded",
                \* "failed-and-recorded", "failed-and-raised"
    errCall,    \* handleApiError harness: the latest call (arguments, result)
    errPrev,    \* handleApiError harness: the call before it
    reqCall,    \* request options harness: the operation, its parameters and
                \* the options of the request it issues
    mpCall      \* multipart harness: the builder's arguments, the body it
                \* returns and what a multipart reader reads back

vars == <<ctx, remote, itemIndex, pc, local, inflight, returnData, thrown,
          outcome, errCall, errPrev, reqCall, mpCall>>

driverVars == <<ctx, remote, itemIndex, pc, local, inflight, returnData,
                thrown, outcome>>

errVars == <<errCall, errPrev>>

builderVars == <<reqCall, mpCall>>

(***************************************************************************)
(* Program constants and model bounds                                      *)
(***************************************************************************)

MAX_LIMIT_PER_REQUEST == 1000

\* Largest number of input items handed to execute.
MaxItems == 3

\* statusCode is optional on the caught error; this stands for "absent".
NoStatusCode == -1

\* An optional string that is absent (JavaScript undefined).
Undefined == "undefined"

Min(a, b) == IF a < b THEN a ELSE b
Max(a, b) == IF a > b THEN a ELSE b

(***************************************************************************)
(* Error normalizer                                                        *)
(***************************************************************************)

EntityTypes == {"record", "job", "file"}

\* A caught transport error: statusCode, response.body.error.message and
\* message; "" stands for an absent (or empty, equally falsy) string.
HttpError(statusCode, bodyMessage, message) ==
    [class |-> "HttpError", statusCode |-> statusCode,
     bodyMessage |-> bodyMessage, message |-> message]

\* httpError.response?.body?.error?.message || httpError.message || 'Unknown issue'
ApiMessage(error) ==
    IF error.bodyMessage # "" THEN error.bodyMessage
    ELSE IF error.message # "" THEN error.message
    ELSE "Unknown issue"

notFoundMessages(entityType) ==
    CASE entityType = "record" ->
           [message |-> "Record not found",
            description |-> "The specified record does not exist"]
      [] entityType = "job" ->
           [message |-> "Job not found",
            description |-> "The specified job ID does not exist or has expired"]
      [] entityType = "file" ->
           [message |-> "File not found",
            description |-> "The specified file does not exist or has been deleted"]

conflictMessages(entityType, apiMessage) ==
    CASE entityType = "record" ->
           [message |-> "Record already exists", description |-> apiMessage]
      [] entityType = "job" ->
           [message |-> "Job already exists", description |-> apiMessage]
      [] entityType = "file" ->
           [message |-> "File already exists",
            description |-> "Use \"Create or Replace\" operation to overwrite existing files"]

\* A faulty rateLimitMessages: the storage wording for every entity type.
rateLimitMessagesStorageOnly(entityType) == "Storage limit reached"

rateLimitMessages(entityType) ==
    CASE entityType = "record" -> "Storage limit reached"
      [] entityType = "job" -> "Rate limit exceeded"
      [] entityType = "file" -> "Storage limit reached"

\* statusCode?.toString()
HttpCode(statusCode) ==
    IF statusCode = NoStatusCode THEN Undefined ELSE ToString(statusCode)

\* The switch of handleApiError: the (message, description) pair.
ErrorText(statusCode, apiMessage, operation, entityType) ==
    CASE statusCode = 400 ->
           [message |-> "Invalid request", description |-> apiMessage]
      [] statusCode = 401 ->
           [message |-> "Invalid API key",
            description |-> "Check your Ainoflow API credentials"]
      [] statusCode = 404 -> notFoundMessages(entityType)
      [] statusCode = 409 -> conflictMessages(entityType, apiMessage)
      [] statusCode = 429 ->
           [message |-> rateLimitMessages(entityType),
            description |-> "API rate/count limit reached for current scope"]
      [] statusCode \in {500, 502, 503} ->
           [message |-> "Server returned an unexpected response",
            description |-> "Ainoflow API response: " \o apiMessage]
      [] OTHER ->
           [message |-> "Could not " \o operation, description |-> apiMessage]

\* A faulty handleApiError: the item index is written into the description.
handleApiErrorNamingItem(error, itemIndex_, operation, entityType) ==
    LET text == ErrorText(error.statusCode, ApiMessage(error), operation, entityType)
    IN  [class |-> "NodeApiError",
         message |-> text.message,
         description |-> text.description \o " (item " \o ToString(itemIndex_) \o ")",
         httpCode |-> HttpCode(error.statusCode),
         itemIndex |-> itemIndex_,
         cause |-> error]

\* GenericFunctions.handleApiError: the NodeApiError it returns.
handleApiError(error, itemIndex_, operation, entityType) ==
    LET text == ErrorText(error.statusCode, ApiMessage(error), operation, entityType)
    IN  [class |-> "NodeApiError",
         message |-> text.message,
         description |-> text.description,
         httpCode |-> HttpCode(error.statusCode),
         itemIndex |-> itemIndex_,
         cause |-> error]

\* The inline handleApiError of the storage node of part_002: no entity
\* type, its own wording.
ErrorTextInline(statusCode, apiMessage, operation) ==
    CASE statusCode = 400 ->
           [message |-> "Invalid request", description |-> apiMessage]
      [] statusCode = 401 ->
           [message |-> "Invalid API key",
            description |-> "Check your Ainoflow API credentials"]
      [] statusCode = 404 ->
           [message |-> "Record not found",
            description |-> "The specified record does not exist"]
      [] statusCode = 409 ->
           [message |-> "Record already exists", description |-> apiMessage]
      [] statusCode = 429 ->
           [message |-> "Storage limit reached",
            description |-> "Storage API count limit reached for current scope"]
      [] statusCode \in {500, 502, 503} ->
           [message |-> "Server error",
            description |-> "Ainoflow API error: " \o apiMessage]
      [] OTHER ->
           [message |-> "Failed to " \o operation, description |-> apiMessage]

handleApiErrorInline(error, itemIndex_, operation) ==
    LET apiMessage ==
            IF error.bodyMessage # "" THEN error.bodyMessage
            ELSE IF error.message # "" THEN error.message
            ELSE "Unknown error"
        text == ErrorTextInline(error.statusCode, apiMessage, operation)
    IN  [class |-> "NodeApiError",
         message |-> text.message,
         description |-> text.description,
         httpCode |-> HttpCode(error.statusCode),
         itemIndex |-> itemIndex_,
         cause |-> error]

(***************************************************************************)
(* Nodes, operations and call sites                                        *)
(***************************************************************************)

FileOperations ==
    {"create", "createOrReplace", "download", "delete", "getMetadata",
     "getUrl", "getMany"}

RecordOperations ==
    {"create", "createOrReplace", "update", "get", "delete", "getMetadata",
     "getMany"}

ConvertOperations == {"convert", "getResult"}

\* (node, resource, operation) as read once by execute with item index 0.
\* "bogus" stands for a value outside the node's options: the default
\* branches that throw "Unknown resource" / "Unknown ... operation".
Operations ==
    {[node |-> "files", resource |-> "file", operation |-> o] :
        o \in FileOperations \cup {"bogus"}}
    \cup {[node |-> "files", resource |-> r, operation |-> "getMany"] :
        r \in {"category", "bogus"}}
    \cup {[node |-> n, resource |-> "record", operation |-> o] :
        n \in {"storage", "storageInline"}, o \in RecordOperations \cup {"bogus"}}
    \cup {[node |-> n, resource |-> r, operation |-> "getMany"] :
        n \in {"storage", "storageInline"}, r \in {"category", "bogus"}}
    \cup {[node |-> "convert", resource |-> "none", operation |-> o] :
        o \in ConvertOperations \cup {"bogus"}}

\* The getMany operations that have a "return all" branch.
IsPaginated(c) ==
    \/ c.node = "files" /\ c.resource = "file" /\ c.operation = "getMany"
    \/ c.node = "storage" /\ c.resource \in {"record", "category"}
                          /\ c.operation = "getMany"
    \/ c.node = "storageInline" /\ c.resource = "record"
                                /\ c.operation = "getMany"

\* The category listings that issue one request and return the response as is.
IsPlainList(c) ==
    /\ c.node \in {"files", "storageInline"}
    /\ c.resource = "category"
    /\ c.operation = "getMany"

IsUnknown(c) ==
    \/ c.operation = "bogus"
    \/ c.resource = "bogus"

IsUpload(c) ==
    \/ c.node = "files" /\ c.resource = "file"
                        /\ c.operation \in {"create", "createOrReplace"}
    \/ c.node = "convert" /\ c.operation = "convert"

\* Operations that go through buildDataFromInput.
TakesData(c) ==
    /\ c.node \in {"storage", "storageInline"}
    /\ c.resource = "record"
    /\ c.operation \in {"create", "createOrReplace", "update"}

\* Operations whose request changes the remote store.
IsMutation(c) ==
    \/ IsUpload(c)
    \/ TakesData(c)
    \/ c.node # "convert" /\ c.resource \in {"file", "record"}
                          /\ c.operation = "delete"

\* The entity type written at the call site of handleApiError.
EntityType(c) ==
    CASE c.node = "files" -> "file"
      [] c.node = "convert" -> "job"
      [] OTHER -> "record"

\* The operation label written at the call site of handleApiError.
OperationLabel(c, inputSource) ==
    CASE c.node = "files" /\ c.resource = "category" -> "get categories"
      [] c.node = "files" /\ c.operation \in {"create", "createOrReplace"} ->
           IF inputSource = "url" THEN "upload file from URL" ELSE "upload file"
      [] c.node = "files" /\ c.operation = "download" -> "download file"
      [] c.node = "files" /\ c.operation = "delete" -> "delete file"
      [] c.node = "files" /\ c.operation = "getMetadata" -> "get file metadata"
      [] c.node = "files" /\ c.operation = "getUrl" -> "get download URL"
      [] c.node = "files" /\ c.operation = "getMany" -> "get many files"
      [] c.node = "convert" /\ c.operation = "convert" ->
           IF inputSource = "url" THEN "submit document via URL"
           ELSE "submit binary file"
      [] c.node = "convert" /\ c.operation = "getResult" -> "get job result"
      [] c.resource = "category" -> "get categories"
      [] c.operation = "create" -> "create record"
      [] c.operation = "createOrReplace" -> "create or replace record"
      [] c.operation = "update" -> "update record"
      [] c.operation = "get" -> "get record"
      [] c.operation = "delete" -> "delete record"
      [] c.operation = "getMetadata" -> "get record metadata"
      [] c.operation = "getMany" -> "get many records"

\* The catch block around an HTTP call: which normalizer the node calls.
NormalizeAt(c, error, itemIndex_, inputSource) ==
    IF c.node = "storageInline"
    THEN handleApiErrorInline(error, itemIndex_, OperationLabel(c, inputSource))
    ELSE handleApiError(error, itemIndex_, OperationLabel(c, inputSource),
                        EntityType(c))

(***************************************************************************)
(* Errors raised locally                                                   *)
(***************************************************************************)

NoError == [class |-> "none"]

\* new NodeOperationError(node, message, {itemIndex, description})
NodeOperationError(message, description, itemIndex_, cause) ==
    [class |-> "NodeOperationError", message |-> message,
     description |-> description, httpCode |-> Undefined,
     itemIndex |-> itemIndex_, cause |-> cause]

\* A plain Error thrown by a host accessor (getNodeParameter, getCredentials,
\* assertBinaryData, getBinaryDataBuffer), all called outside the try blocks.
HostError == [class |-> "Error", message |-> "host accessor failed"]

\* What the parameters of one input item resolve to. A failing host
\* accessor is drawn for the operations that are not paginated listings.
ItemInputs(c) ==
    [hostFails : IF IsPaginated(c) THEN {FALSE} ELSE BOOLEAN,
     inputSource : IF IsUpload(c) THEN {"url", "binary"} ELSE {"binary"},
     sourceUrl : IF IsUpload(c) THEN {"", "https://example.com/a.pdf"} ELSE {""},
     data : IF TakesData(c) THEN {"object", "invalidJson", "primitive", "fields"}
            ELSE {"fields"},
     languages : IF c.node = "convert" /\ c.operation = "convert"
                 THEN {0, 1} ELSE {1},
     outputs : IF c.node = "convert" /\ c.operation = "convert"
               THEN {0, 1} ELSE {1},
     jobId : IF c.node = "convert" /\ c.operation = "getResult"
             THEN {"", "job-1"} ELSE {"job-1"}]

\* buildDataFromInput: the error it throws, or NoError.
buildDataFromInput(data, itemIndex_) ==
    CASE data = "invalidJson" ->
           NodeOperationError("Invalid JSON in data field",
                              "The JSON field must contain valid JSON",
                              itemIndex_, NoError)
      [] data = "primitive" ->
           NodeOperationError("JSON must be an object or array",
                              "Primitive values (strings, numbers, booleans) are not allowed",
                              itemIndex_, NoError)
      [] OTHER -> NoError

\* A faulty LocalFailure: the operations validate nothing before their
\* first request.
LocalFailureUnchecked(c, input, itemIndex_) ==
    IF input.hostFails THEN HostError ELSE NoError

\* The error thrown for input item itemIndex_ before any HTTP request is
\* made, in the order the code reaches the throw sites; NoError when the
\* operation gets as far as its first request.
LocalFailure(c, input, itemIndex_) ==
    CASE c.resource = "bogus" ->
           NodeOperationError("Unknown resource: bogus", Undefined, itemIndex_, NoError)
      [] c.operation = "bogus" ->
           NodeOperationError(
               CASE c.node = "files" -> "Unknown file operation: bogus"
                 [] c.node = "convert" -> "Unknown operation: bogus"
                 [] OTHER -> "Unknown record operation: bogus",
               Undefined, itemIndex_, NoError)
      [] c.node = "convert" /\ c.operation = "convert" /\ input.languages = 0 ->
           NodeOperationError("At least one language must be selected",
                              "Languages are required for OCR and audio transcription",
                              itemIndex_, NoError)
      [] c.node = "convert" /\ c.operation = "convert" /\ input.outputs = 0 ->
           NodeOperationError("At least one output format must be selected",
                              Undefined, itemIndex_, NoError)
      [] c.node = "convert" /\ c.operation = "getResult" /\ input.jobId = "" ->
           NodeOperationError("Job ID is required", Undefined, itemIndex_, NoError)
      [] IsUpload(c) /\ input.inputSource = "url" /\ input.sourceUrl = "" ->
           NodeOperationError("Source URL is required", Undefined, itemIndex_, NoError)
      [] input.hostFails -> HostError
      [] TakesData(c) -> buildDataFromInput(input.data, itemIndex_)
      [] OTHER -> NoError

(***************************************************************************)
(* Requests, the remote API and response shapes                            *)
(***************************************************************************)

\* Sizes of the remote collection a paginated list operation reads, and of
\* the category list the unpaginated listings read.
Totals == {0, 37, 2037, 3000}
CategoryTotals == {0, 1, 37}

\* User-supplied list parameters.
Limits == {50}
Offsets == {0, 37}
Pages == {1, 2}

\* Status codes the remote answers a failed request with, one per run (the
\* error normalizer is exercised on the full table under SpecErr).
FailStatus == {429}
FailBodyMessages == {"", "quota exceeded for scope"}

EmptyQs == [k \in {} |-> 0]

\* qs with key k set to v.
With(qs, k, v) == [x \in DOMAIN qs \cup {k} |-> IF x = k THEN v ELSE qs[x]]

\* qs with key k set to v when cond holds: "if (cond) qs.k = v".
WithIf(qs, cond, k, v) == IF cond THEN With(qs, k, v) ELSE qs

Arr(items) == [isArray |-> TRUE, items |-> items]
Obj(fields) == [isArray |-> FALSE, fields |-> fields]

\* A faulty ArrayItems: only a bare array is read, a wrapper counts as empty.
ArrayItemsBareOnly(response) ==
    IF response.isArray THEN response.items ELSE <<>>

\* Array.isArray(response) ? response : response.items || []
ArrayItems(response) ==
    IF response.isArray THEN response.items
    ELSE IF "items" \in DOMAIN response.fields THEN response.fields.items
    ELSE <<>>

\* A faulty HasMore: the loop goes on while pages are not empty.
HasMoreWhileNotEmpty(items) == Len(items) > 0

\* hasMore = items.length === MAX_LIMIT_PER_REQUEST
HasMore(items) == Len(items) = MAX_LIMIT_PER_REQUEST

\* The cursor a "return all" loop starts from: options.offset || 0 for
\* files, page 1 for storage.
FirstCursor(c) == IF c.node = "files" THEN c.offset ELSE 1

\* A faulty NextCursor: the cursor moves by one whatever the node.
NextCursorByOne(c, cursor) == cursor + 1

\* offset += MAX_LIMIT_PER_REQUEST for files, page++ for storage.
NextCursor(c, cursor) ==
    IF c.node = "files" THEN cursor + MAX_LIMIT_PER_REQUEST ELSE cursor + 1

\* The query of one request of the "return all" loop.
PageQs(c, cursor) ==
    CASE c.node = "files" ->
           WithIf([limit |-> MAX_LIMIT_PER_REQUEST, offset |-> cursor],
                  c.aggregate, "aggregate", TRUE)
      [] c.node = "storage" ->
           [page |-> cursor, limit |-> MAX_LIMIT_PER_REQUEST]
      [] OTHER ->
           WithIf([page |-> cursor, limit |-> MAX_LIMIT_PER_REQUEST],
                  c.aggregate, "aggregate", TRUE)

\* The query of the single bounded fetch (return all off).
SingleQs(c) ==
    CASE c.node = "files" ->
           WithIf(WithIf([limit |-> c.limit], c.offset # 0, "offset", c.offset),
                  c.aggregate, "aggregate", TRUE)
      [] c.node = "storage" ->
           WithIf([page |-> c.page, limit |-> c.limit],
                  c.aggregate, "aggregate", TRUE)
      [] OTHER ->
           WithIf([page |-> 1, limit |-> c.limit], c.aggregate, "aggregate", TRUE)

\* The request an operation issues: for which input item, which one of the
\* item's requests, and its query.
Request(itemIndex_, n, isList, qs) ==
    [item |-> itemIndex_, n |-> n, list |-> isList, qs |-> qs]

\* The first request of the operation for input item itemIndex_.
FirstRequest(c, itemIndex_) ==
    CASE IsPaginated(c) /\ c.returnAll ->
           Request(itemIndex_, 1, TRUE, PageQs(c, FirstCursor(c)))
      [] IsPaginated(c) ->
           Request(itemIndex_, 1, TRUE, SingleQs(c))
      [] IsPlainList(c) ->
           Request(itemIndex_, 1, TRUE, EmptyQs)
      [] OTHER ->
           Request(itemIndex_, 1, FALSE, EmptyQs)

\* The remote collection: elements start+1 .. start+count.
ListItems(start, count) == [k \in 1..count |-> [id |-> start + k]]

\* The slice of the remote collection a list query selects.
RemotePage(qs, total) ==
    LET start == IF "offset" \in DOMAIN qs THEN qs.offset
                 ELSE IF "page" \in DOMAIN qs THEN (qs.page - 1) * qs.limit
                 ELSE 0
        count == IF "limit" \in DOMAIN qs
                 THEN Max(0, Min(qs.limit, total - start))
                 ELSE Max(0, total - start)
    IN  ListItems(start, count)

\* The two shapes a list endpoint answers with.
Shapes == {"array", "wrapper"}

\* The remote's successful answer to a request.
Answer(req, shape, total) ==
    IF req.list
    THEN LET items == RemotePage(req.qs, total)
         IN  IF shape = "array" THEN Arr(items)
             ELSE Obj([items |-> items, totalCount |-> total,
                       page |-> IF "page" \in DOMAIN req.qs THEN req.qs.page ELSE 1,
                       pageSize |-> Len(items)])
    ELSE Obj([status |-> "ok"])

(***************************************************************************)
(* What the operations return                                              *)
(***************************************************************************)

\* The value a "return all" loop returns once a page is not full.
CollectedResult(c, allItems) ==
    IF c.node = "storage" /\ c.aggregate
    THEN Obj([items |-> allItems, totalCount |-> Len(allItems), page |-> 1,
              pageSize |-> Len(allItems), totalPages |-> 1])
    ELSE Arr(allItems)

\* The value the single bounded fetch returns.
SingleResult(c, response) ==
    IF c.node = "storage" /\ c.aggregate THEN response
    ELSE Arr(ArrayItems(response))

\* The value a non-list operation returns for the remote's answer.
PlainResult(c, response, itemIndex_) ==
    CASE c.operation = "delete" -> Obj([deleted |-> TRUE])
      [] c.node = "files" /\ c.operation = "download" ->
           Obj([json |-> [fileName |-> "key"], binary |-> "data",
                pairedItem |-> itemIndex_])
      [] OTHER -> response

\* A faulty ToEntries: the elements of an array are pushed last one first.
ToEntriesLastFirst(c, responseData, itemIndex_) ==
    IF c.node # "convert" /\ responseData.isArray
    THEN [k \in 1..Len(responseData.items) |->
             [json |-> responseData.items[Len(responseData.items) + 1 - k],
              pairedItem |-> itemIndex_]]
    ELSE IF c.node = "files" /\ "binary" \in DOMAIN responseData.fields
    THEN <<responseData.fields>>
    ELSE <<[json |-> responseData.fields, pairedItem |-> itemIndex_]>>

\* A faulty ToEntries: an array is pushed as one entry, like any other value.
ToEntriesOneEach(c, responseData, itemIndex_) ==
    IF responseData.isArray
    THEN <<[json |-> [items |-> responseData.items], pairedItem |-> itemIndex_]>>
    ELSE IF c.node = "files" /\ "binary" \in DOMAIN responseData.fields
    THEN <<responseData.fields>>
    ELSE <<[json |-> responseData.fields, pairedItem |-> itemIndex_]>>

\* The entries execute pushes for the value an operation returned.
ToEntries(c, responseData, itemIndex_) ==
    CASE c.node # "convert" /\ responseData.isArray ->
           [k \in 1..Len(responseData.items) |->
               [json |-> responseData.items[k], pairedItem |-> itemIndex_]]
      [] c.node = "files" /\ ~responseData.isArray
                          /\ "binary" \in DOMAIN responseData.fields ->
           <<responseData.fields>>
      [] OTHER ->
           <<[json |-> responseData.fields, pairedItem |-> itemIndex_]>>

\* A faulty ErrorEntry: the entry is tagged with a one-based index.
ErrorEntryOneBased(error, itemIndex_) ==
    [json |-> [error |-> error.message], pairedItem |-> itemIndex_ + 1]

\* The entry execute pushes for a failed item under continue-on-fail.
ErrorEntry(error, itemIndex_) ==
    [json |-> [error |-> error.message], pairedItem |-> itemIndex_]

\* A faulty Rethrow: whatever was caught is thrown as it is.
RethrowRaw(error, itemIndex_) == error

\* What execute throws when continue-on-fail is off.
Rethrow(error, itemIndex_) ==
    IF error.class \in {"NodeApiError", "NodeOperationError"} THEN error
    ELSE NodeOperationError(error.message, Undefined, itemIndex_, error)

(***************************************************************************)
(* execute: the item loop                                                  *)
(***************************************************************************)

\* The parameter values execute can be run with.
Contexts ==
    {[node |-> o.node, resource |-> o.resource, operation |-> o.operation,
      continueOnFail |-> cof, nItems |-> n, returnAll |-> ra,
      aggregate |-> ag, limit |-> lim, offset |-> off, page |-> pg] :
        o \in Operations, cof \in BOOLEAN, n \in 0..MaxItems,
        ra \in BOOLEAN, ag \in BOOLEAN, lim \in Limits, off \in Offsets,
        pg \in Pages}

\* Parameters an operation never reads are kept at their defaults.
ReadsItsParameters(c) ==
    /\ ~IsPaginated(c) => ~c.returnAll /\ ~c.aggregate
    /\ c.node # "files" \/ ~IsPaginated(c) => c.offset = 0
    /\ c.node # "storage" \/ ~IsPaginated(c) \/ c.returnAll => c.page = 1

DefaultInput ==
    [hostFails |-> FALSE, inputSource |-> "binary", sourceUrl |-> "",
     data |-> "fields", languages |-> 1, outputs |-> 1, jobId |-> "job-1"]

\* No operation running.
IdleLocal ==
    [input |-> DefaultInput, allItems |-> <<>>, cursor |-> 0, requests |-> 0,
     running |-> FALSE, error |-> NoError, results |-> <<>>]

\* The locals once the operation has returned or thrown: only the count of
\* the requests it issued is kept (and, by Catch, the error caught), with
\* the record of how the operations of the items so far ended.
Unwound(loc) ==
    [IdleLocal EXCEPT !.requests = IF loc.running THEN loc.requests ELSE 0,
                      !.results = loc.results]

\* How an operation ended: it threw, or it returned an array of n elements
\* or a value that is not an array.
Threw == [threw |-> TRUE, isArray |-> FALSE, n |-> 0]
Returned(responseData) ==
    [threw |-> FALSE, isArray |-> responseData.isArray,
     n |-> IF responseData.isArray THEN Len(responseData.items) ELSE 0]

NoCall == [called |-> FALSE]

Init ==
    /\ ctx \in {c \in Contexts : ReadsItsParameters(c)}
    /\ remote \in [total : CASE IsPaginated(ctx) -> Totals
                               [] IsPlainList(ctx) -> CategoryTotals
                               [] OTHER -> {0},
                   failStatus : FailStatus,
                   applied : {{}}]
    /\ itemIndex = 0
    /\ pc = "loop"
    /\ local = IdleLocal
    /\ inflight = {}
    /\ returnData = <<>>
    /\ thrown = NoError
    /\ outcome = [i \in 0..(ctx.nItems - 1) |-> "pending"]
    /\ errCall = NoCall
    /\ errPrev = NoCall
    /\ reqCall = NoCall
    /\ mpCall = NoCall

\* A faulty catch block: with continue-on-fail off the error is kept but the
\* loop goes on to the next item.
CatchAndGoOn(error) ==
    /\ local' = [Unwound(local) EXCEPT !.error = error,
                                       !.results = Append(@, Threw)]
    /\ itemIndex' = itemIndex + 1
    /\ pc' = "loop"
    /\ IF ctx.continueOnFail
       THEN /\ returnData' = Append(returnData, ErrorEntry(error, itemIndex))
            /\ outcome' = [outcome EXCEPT ![itemIndex] = "failed-and-recorded"]
            /\ UNCHANGED thrown
       ELSE /\ thrown' = Rethrow(error, itemIndex)
            /\ outcome' = [outcome EXCEPT ![itemIndex] = "failed-and-raised"]
            /\ UNCHANGED returnData

\* A faulty catch block: the pages gathered so far are pushed before the
\* error is handled.
CatchEmitPartial(error) ==
    /\ local' = [Unwound(local) EXCEPT !.error = error,
                                       !.results = Append(@, Threw)]
    /\ IF ctx.continueOnFail
       THEN /\ returnData' =
                  Append(returnData \o
                             [k \in 1..Len(local.allItems) |->
                                 [json |-> local.allItems[k], pairedItem |-> itemIndex]],
                         ErrorEntry(error, itemIndex))
            /\ itemIndex' = itemIndex + 1
            /\ pc' = "loop"
            /\ outcome' = [outcome EXCEPT ![itemIndex] = "failed-and-recorded"]
            /\ UNCHANGED thrown
       ELSE /\ returnData' =
                  returnData \o
                      [k \in 1..Len(local.allItems) |->
                          [json |-> local.allItems[k], pairedItem |-> itemIndex]]
            /\ thrown' = Rethrow(error, itemIndex)
            /\ pc' = "raised"
            /\ outcome' = [outcome EXCEPT ![itemIndex] = "failed-and-raised"]
            /\ UNCHANGED itemIndex

\* The catch block of execute, for the error the current item's operation threw.
Catch(error) ==
    /\ local' = [Unwound(local) EXCEPT !.error = error,
                                       !.results = Append(@, Threw)]
    /\ IF ctx.continueOnFail
       THEN /\ returnData' = Append(returnData, ErrorEntry(error, itemIndex))
            /\ itemIndex' = itemIndex + 1
            /\ pc' = "loop"
            /\ outcome' = [outcome EXCEPT ![itemIndex] = "failed-and-recorded"]
            /\ UNCHANGED thrown
       ELSE /\ thrown' = Rethrow(error, itemIndex)
            /\ pc' = "raised"
            /\ outcome' = [outcome EXCEPT ![itemIndex] = "failed-and-raised"]
            /\ UNCHANGED <<returnData, itemIndex>>

\* The rest of the try block once the operation has returned responseData.
Complete(responseData) ==
    /\ local' = [Unwound(local) EXCEPT !.results = Append(@, Returned(responseData))]
    /\ returnData' = returnData \o ToEntries(ctx, responseData, itemIndex)
    /\ itemIndex' = itemIndex + 1
    /\ pc' = "loop"
    /\ outcome' = [outcome EXCEPT ![itemIndex] = "succeeded"]
    /\ UNCHANGED thrown

\* A faulty CanStartItem: the next operation starts without awaiting the
\* request in flight.
CanStartItemEarly == pc \in {"loop", "await"} /\ itemIndex < ctx.nItems

\* execute may start the operation of the next input item.
CanStartItem == pc = "loop" /\ itemIndex < ctx.nItems

\* An iteration of the for loop up to the await of its first HTTP request.
StartItem ==
    /\ CanStartItem
    /\ \E input \in ItemInputs(ctx) :
          /\ LocalFailure(ctx, input, itemIndex) = NoError
          /\ local' = [input |-> input, allItems |-> <<>>,
                       cursor |-> FirstCursor(ctx), requests |-> 1,
                       running |-> TRUE, error |-> NoError,
                       results |-> local.results]
    /\ inflight' = inflight \cup {FirstRequest(ctx, itemIndex)}
    /\ pc' = "await"
    /\ UNCHANGED <<ctx, remote, itemIndex, returnData, thrown, outcome, errVars, builderVars>>

\* An iteration of the for loop whose operation throws before any request.
FailLocally ==
    /\ CanStartItem
    /\ \E input \in ItemInputs(ctx) :
          /\ LocalFailure(ctx, input, itemIndex) # NoError
          /\ Catch(LocalFailure(ctx, input, itemIndex))
    /\ UNCHANGED <<ctx, remote, inflight, errVars, builderVars>>

\* The body of the "return all" loop after its await: a page arrives.
ReceivePage ==
    /\ pc = "await"
    /\ IsPaginated(ctx) /\ ctx.returnAll
    /\ \E req \in inflight, shape \in Shapes :
          LET response == Answer(req, shape, remote.total)
              items == ArrayItems(response)
              allItems == local.allItems \o items
              cursor == NextCursor(ctx, local.cursor)
          IN  IF HasMore(items)
              THEN /\ local' = [local EXCEPT !.allItems = allItems,
                                             !.cursor = cursor,
                                             !.requests = @ + 1]
                   /\ inflight' = (inflight \ {req}) \cup
                          {Request(itemIndex, local.requests + 1, TRUE,
                                   PageQs(ctx, cursor))}
                   /\ UNCHANGED <<returnData, itemIndex, pc, thrown, outcome>>
              ELSE /\ inflight' = inflight \ {req}
                   /\ Complete(CollectedResult(ctx, allItems))
    /\ UNCHANGED <<ctx, remote, errVars, builderVars>>

\* The single bounded fetch, or a category listing, after its await.
ReceiveList ==
    /\ pc = "await"
    /\ (IsPaginated(ctx) /\ ~ctx.returnAll) \/ IsPlainList(ctx)
    /\ \E req \in inflight, shape \in Shapes :
          LET response == Answer(req, shape, remote.total)
          IN  /\ inflight' = inflight \ {req}
              /\ Complete(IF IsPlainList(ctx) THEN response
                          ELSE SingleResult(ctx, response))
    /\ UNCHANGED <<ctx, remote, errVars, builderVars>>

\* A non-list operation after its await: the remote served the request.
ReceiveResponse ==
    /\ pc = "await"
    /\ ~IsPaginated(ctx) /\ ~IsPlainList(ctx)
    /\ \E req \in inflight :
          /\ inflight' = inflight \ {req}
          /\ Complete(PlainResult(ctx, Answer(req, "wrapper", remote.total),
                                  itemIndex))
    /\ remote' = [remote EXCEPT !.applied =
                     IF IsMutation(ctx) THEN @ \cup {itemIndex} ELSE @]
    /\ UNCHANGED <<ctx, errVars, builderVars>>

\* A faulty ReceiveError: a request that failed is issued once more before
\* the error is handed on.
ReceiveErrorRetrying ==
    /\ pc = "await"
    /\ \E req \in inflight, bodyMessage \in FailBodyMessages :
          IF local.requests < 2
          THEN /\ inflight' = (inflight \ {req}) \cup {[req EXCEPT !.n = @ + 1]}
               /\ local' = [local EXCEPT !.requests = @ + 1]
               /\ UNCHANGED <<returnData, itemIndex, pc, thrown, outcome>>
          ELSE /\ inflight' = inflight \ {req}
               /\ Catch(NormalizeAt(ctx,
                            HttpError(remote.failStatus, bodyMessage, "Request failed"),
                            itemIndex, local.input.inputSource))
    /\ UNCHANGED <<ctx, remote, errVars, builderVars>>

\* Any operation after its await: the request failed; the catch block of
\* the operation normalizes the error and execute catches it.
ReceiveError ==
    /\ pc = "await"
    /\ \E req \in inflight, bodyMessage \in FailBodyMessages :
          /\ inflight' = inflight \ {req}
          /\ Catch(NormalizeAt(ctx,
                       HttpError(remote.failStatus, bodyMessage, "Request failed"),
                       itemIndex, local.input.inputSource))
    /\ UNCHANGED <<ctx, remote, errVars, builderVars>>

\* The for loop is over: return [returnData].
Finish ==
    /\ pc = "loop"
    /\ itemIndex = ctx.nItems
    /\ pc' = "done"
    /\ UNCHANGED <<ctx, remote, itemIndex, local, inflight, returnData,
                   thrown, outcome, errVars, builderVars>>

Next ==
    \/ StartItem
    \/ FailLocally
    \/ ReceivePage
    \/ ReceiveList
    \/ ReceiveResponse
    \/ ReceiveError
    \/ Finish

Spec == Init /\ [][Next]_vars

\* execute run on one input item with a "return all" listing. It keeps
\* running: an awaited request is answered or fails (the host resolves or
\* rejects every promise it hands out), and the loop goes on from there.
InitCollect ==
    /\ Init
    /\ IsPaginated(ctx)
    /\ ctx.returnAll
    /\ ctx.nItems = 1

NextCollect ==
    \/ StartItem
    \/ ReceivePage
    \/ ReceiveError
    \/ Finish

SpecCollect == InitCollect /\ [][NextCollect]_vars /\ WF_vars(NextCollect)

\* What execute hands back: the list it returns, nothing when it raised.
Output == IF pc = "done" THEN returnData ELSE <<>>

TypeOK ==
    /\ pc \in {"loop", "await", "done", "raised"}
    /\ itemIndex \in 0..ctx.nItems
    /\ Cardinality(inflight) <= 1

(***************************************************************************)
(* Properties of the item loop and of the paginated collectors             *)
(***************************************************************************)

\* The output entries tagged with input item i, in output order.
EntriesOf(i) == SelectSeq(returnData, LAMBDA e : e.pairedItem = i)

IsErrorEntry(e) == "error" \in DOMAIN e.json

\* A "return all" collection is what the run's operation is.
Collecting == IsPaginated(ctx) /\ ctx.returnAll

\* The operation of item itemIndex - 1 has just ended with outcome o.
JustEnded(o) ==
    /\ pc \in {"loop", "done"}
    /\ itemIndex > 0
    /\ outcome[itemIndex - 1] = o

\* The number of elements of the remote collection before the first one the
\* list operation selects.
Skipped ==
    CASE ctx.node = "files" -> ctx.offset
      [] ctx.returnAll -> 0
      [] ctx.node = "storage" -> (ctx.page - 1) * ctx.limit
      [] OTHER -> 0

\* The number of elements of the remote collection from that one on.
Rest == Max(0, remote.total - Skipped)

\* The size of the j-th page of at most MAX_LIMIT_PER_REQUEST elements.
PageSize(j) ==
    Max(0, Min(MAX_LIMIT_PER_REQUEST, Rest - (j - 1) * MAX_LIMIT_PER_REQUEST))

\* The first page that is not full, every earlier one being full.
FirstShortPage ==
    CHOOSE k \in 1..(Rest \div MAX_LIMIT_PER_REQUEST + 1) :
        /\ PageSize(k) < MAX_LIMIT_PER_REQUEST
        /\ \A j \in 1..(k - 1) : PageSize(j) = MAX_LIMIT_PER_REQUEST

\* Pages 1..k of the remote collection, one after the other.
RECURSIVE PagesUpTo(_)
PagesUpTo(k) ==
    IF k = 0 THEN <<>>
    ELSE PagesUpTo(k - 1) \o
         ListItems(Skipped + (k - 1) * MAX_LIMIT_PER_REQUEST, PageSize(k))

\* The item list the list operation of input item i handed to execute, read
\* off the output: the items fanned out, or the items of the one wrapper.
ItemsOf(i) ==
    LET es == EntriesOf(i)
    IN  IF ctx.node = "storage" /\ ctx.aggregate /\ Len(es) = 1
        THEN es[1].json.items
        ELSE [k \in 1..Len(es) |-> es[k].json]

\* C1: a "return all" collection whose k-th page is the first one with fewer
\* than 1000 items has issued exactly k list requests when it returns, and
\* returns pages 1..k one after the other; 2037 elements take 3 requests,
\* 3000 elements take 4 (the last one answered with no item).
C1_ReturnAllStopsAtFirstShortPage ==
    Collecting /\ JustEnded("succeeded") =>
        /\ local.requests = FirstShortPage
        /\ ItemsOf(itemIndex - 1) = PagesUpTo(FirstShortPage)
        /\ Len(ItemsOf(itemIndex - 1)) = Rest
        /\ Rest = 2037 => local.requests = 3
        /\ Rest = 3000 => local.requests = 4 /\ PageSize(4) = 0

\* Three full pages, then a fourth request answered with no item: 4 requests,
\* 3000 items.
C1_FourthRequestAfterThreeFullPages ==
    /\ Collecting /\ JustEnded("succeeded")
    /\ ctx.nItems = 1 /\ ctx.node = "files" /\ ~ctx.aggregate
    /\ remote.total = 3000 /\ ctx.offset = 0
    /\ local.requests = 4
    /\ Len(returnData) = 3000

\* C2: with continue-on-fail on, a failing item never makes execute raise; it
\* leaves exactly one error entry, tagged with the item's zero-based index,
\* and the loop goes on: the next item can be started and every item has
\* been processed when execute returns.
C2_ContinueOnFailRecordsAndGoesOn ==
    ctx.continueOnFail =>
        /\ pc # "raised" /\ thrown = NoError
        /\ \A i \in DOMAIN outcome : outcome[i] # "failed-and-raised"
        /\ pc = "done" => \A i \in DOMAIN outcome : outcome[i] # "pending"
        /\ \A i \in DOMAIN outcome : outcome[i] = "failed-and-recorded" =>
              /\ Len(EntriesOf(i)) = 1
              /\ IsErrorEntry(EntriesOf(i)[1])
        /\ JustEnded("failed-and-recorded") =>
              /\ returnData[Len(returnData)] =
                    [json |-> [error |-> local.error.message],
                     pairedItem |-> itemIndex - 1]
              /\ pc = "loop" /\ itemIndex < ctx.nItems =>
                    ENABLED (StartItem \/ FailLocally)

\* Three items, only the second fails: three entries, the second an error
\* entry tagged item 1.
C2_SecondOfThreeFails ==
    /\ ctx.continueOnFail /\ pc = "done" /\ ctx.nItems = 3
    /\ outcome[0] = "succeeded"
    /\ outcome[1] = "failed-and-recorded"
    /\ outcome[2] = "succeeded"
    /\ Len(returnData) = 3
    /\ IsErrorEntry(returnData[2]) /\ returnData[2].pairedItem = 1
    /\ ~IsErrorEntry(returnData[1]) /\ ~IsErrorEntry(returnData[3])

\* C3: with continue-on-fail off, nothing is ever recorded as an error entry;
\* an item has failed exactly when execute has raised, the failed item is the
\* one the loop was at, every earlier item succeeded, every later one is
\* still pending, no request is in flight, nothing more happens, and the
\* mutations of the items that succeeded are still applied on the remote.
C3_FirstFailureRaisesAtOnce ==
    ~ctx.continueOnFail =>
        /\ \A i \in DOMAIN outcome : outcome[i] # "failed-and-recorded"
        /\ (\E i \in DOMAIN outcome : outcome[i] = "failed-and-raised")
               <=> pc = "raised"
        /\ pc # "raised" => thrown = NoError
        /\ pc = "raised" =>
              /\ thrown # NoError
              /\ outcome[itemIndex] = "failed-and-raised"
              /\ \A j \in DOMAIN outcome :
                    /\ j < itemIndex => outcome[j] = "succeeded"
                    /\ j > itemIndex => outcome[j] = "pending"
              /\ inflight = {}
              /\ ~ENABLED Next
              /\ remote.applied =
                    IF IsMutation(ctx) THEN 0..(itemIndex - 1) ELSE {}

\* The second of three mutations fails: execute has raised, the first
\* mutation stays applied, the third item was never started.
C3_RaisedAfterOneMutation ==
    /\ ~ctx.continueOnFail /\ pc = "raised" /\ ctx.nItems = 3
    /\ IsMutation(ctx)
    /\ itemIndex = 1
    /\ remote.applied = {0}
    /\ outcome[2] = "pending"

\* C4: at most one request is in flight; a request in flight belongs to the
\* item the loop is at, whose operation has not ended, and is the latest one
\* that operation issued; every earlier item has ended and no later item
\* has been started.
C4_StrictlySequential ==
    /\ Cardinality(inflight) <= 1
    /\ inflight # {} <=> pc = "await"
    /\ \A r \in inflight :
          /\ r.item = itemIndex
          /\ r.n = local.requests
          /\ outcome[itemIndex] = "pending"
    /\ \A j \in DOMAIN outcome :
          /\ j < itemIndex => outcome[j] # "pending"
          /\ j > itemIndex => outcome[j] = "pending"

\* The second page request of the second item's collection is in flight.
C4_SecondPageOfSecondItem ==
    /\ pc = "await" /\ Collecting
    /\ itemIndex = 1
    /\ \E r \in inflight : r.item = 1 /\ r.n = 2
    /\ outcome[0] = "succeeded"

\* C5: when a page request of a "return all" collection fails, no page
\* gathered for that item reaches the output: with continue-on-fail on the
\* item's entries are the one error entry, with it off execute raises, no
\* entry is tagged with the item and execute hands back nothing.
C5_FailedPageDiscardsCollection ==
    Collecting =>
        /\ JustEnded("failed-and-recorded") =>
              /\ local.allItems = <<>>
              /\ Len(EntriesOf(itemIndex - 1)) = 1
              /\ IsErrorEntry(EntriesOf(itemIndex - 1)[1])
        /\ pc = "raised" =>
              /\ local.allItems = <<>>
              /\ EntriesOf(itemIndex) = <<>>
              /\ thrown.class = "NodeApiError"
              /\ Output = <<>>

\* The third page request fails after two full pages were gathered.
C5_ThirdPageFails ==
    /\ Collecting /\ ctx.continueOnFail
    /\ JustEnded("failed-and-recorded")
    /\ local.requests = 3
    /\ ctx.nItems = 1
    /\ Len(returnData) = 1

\* C10: for the list request in flight, the bare array and the wrapper
\* holding the same elements are read as the same item list; a "return all"
\* collection has issued the same number of requests and returns the same
\* list whichever shape each page came in, and so does the single bounded
\* fetch with aggregate off.
C10_BothShapesReadAlike ==
    /\ pc = "await" /\ IsPaginated(ctx) =>
          \A r \in inflight :
              /\ ~Answer(r, "wrapper", remote.total).isArray
              /\ ArrayItems(Answer(r, "array", remote.total))
                    = ArrayItems(Answer(r, "wrapper", remote.total))
    /\ Collecting /\ JustEnded("succeeded") =>
          /\ local.requests = Rest \div MAX_LIMIT_PER_REQUEST + 1
          /\ ItemsOf(itemIndex - 1) = ListItems(Skipped, Rest)
    /\ IsPaginated(ctx) /\ ~ctx.returnAll /\ ~ctx.aggregate
          /\ JustEnded("succeeded") =>
          /\ local.requests = 1
          /\ ItemsOf(itemIndex - 1) = ListItems(Skipped, Min(ctx.limit, Rest))

\* A collection of 2037 elements has returned after three pages.
C10_CollectedInThreePages ==
    /\ Collecting /\ JustEnded("succeeded")
    /\ remote.total = 2037 /\ Skipped = 0
    /\ local.requests = 3
    /\ Len(ItemsOf(itemIndex - 1)) = 2037

\* C11: in "return all" mode the n-th list request of a collection asks for
\* 1000 items and carries the cursor: offset = starting offset + 1000*(n-1)
\* for files, page = n for storage; the loop's cursor is the one of the
\* request in flight, one step per page fetched, every page fetched so far
\* having been full.
C11_NthRequestCarriesCursor ==
    Collecting =>
        \A r \in inflight :
            /\ r.qs.limit = MAX_LIMIT_PER_REQUEST
            /\ r.n = local.requests
            /\ Len(local.allItems) = MAX_LIMIT_PER_REQUEST * (r.n - 1)
            /\ IF ctx.node = "files"
               THEN /\ r.qs.offset = ctx.offset + MAX_LIMIT_PER_REQUEST * (r.n - 1)
                    /\ local.cursor = r.qs.offset
                    /\ "page" \notin DOMAIN r.qs
               ELSE /\ r.qs.page = r.n
                    /\ local.cursor = r.qs.page
                    /\ "offset" \notin DOMAIN r.qs

\* The third request of a files collection started at offset 37.
C11_ThirdRequestFromOffset37 ==
    /\ Collecting /\ ctx.node = "files" /\ ctx.offset = 37
    /\ pc = "await"
    /\ \E r \in inflight : r.n = 3 /\ r.qs.offset = 2037 /\ r.qs.limit = 1000

\* The parameters of an item do not pass the operation's validation.
InvalidInput(c, input) ==
    \/ IsUpload(c) /\ input.inputSource = "url" /\ input.sourceUrl = ""
    \/ TakesData(c) /\ input.data \in {"invalidJson", "primitive"}
    \/ c.node = "convert" /\ c.operation = "convert"
           /\ (input.languages = 0 \/ input.outputs = 0)
    \/ c.node = "convert" /\ c.operation = "getResult" /\ input.jobId = ""

ValidationMessages ==
    {"Source URL is required", "Invalid JSON in data field",
     "JSON must be an object or array",
     "At least one language must be selected",
     "At least one output format must be selected", "Job ID is required"}

\* C17: no request is ever in flight for an item whose parameters fail
\* validation; when a validation error has been caught the item's operation
\* has issued no request and the remote has applied nothing for it; under
\* continue-on-fail the item is recorded and the loop can go on, otherwise
\* execute has raised that error.
C17_ValidationFailsBeforeAnyRequest ==
    /\ pc = "await" => ~InvalidInput(ctx, local.input)
    /\ local.error.class = "NodeOperationError"
          /\ local.error.message \in ValidationMessages =>
          /\ local.requests = 0
          /\ inflight = {}
          /\ local.error.itemIndex \notin remote.applied
          /\ IF ctx.continueOnFail
             THEN /\ JustEnded("failed-and-recorded")
                  /\ local.error.itemIndex = itemIndex - 1
                  /\ thrown = NoError
                  /\ pc = "loop" /\ itemIndex < ctx.nItems =>
                        ENABLED (StartItem \/ FailLocally)
             ELSE /\ pc = "raised"
                  /\ thrown = local.error
                  /\ local.error.itemIndex = itemIndex

\* The second of three uploads has no source URL: it is recorded without a
\* request, after the first upload was applied.
C17_SecondUploadWithoutUrl ==
    /\ ctx.continueOnFail /\ ctx.nItems = 3
    /\ pc = "loop" /\ itemIndex = 2
    /\ local.error.class = "NodeOperationError"
    /\ local.error.message = "Source URL is required"
    /\ local.requests = 0
    /\ remote.applied = {0}

\* C18: for the list operations of the files node and of the storage node,
\* every list request carries the aggregate parameter exactly when the flag
\* is set; with the flag set the output of the item is one wrapper entry
\* with the remote's total count, with the flag not set it is the flat list.
\* (The output of the storage single fetch with the flag set depends on the
\* shape the remote answers with and is left out.)
C18_AggregateThreadedThrough ==
    IsPaginated(ctx) /\ ctx.node \in {"files", "storage"} =>
        /\ \A r \in inflight : ("aggregate" \in DOMAIN r.qs) <=> ctx.aggregate
        /\ JustEnded("succeeded") /\ ctx.aggregate
              /\ (ctx.returnAll \/ ctx.node = "files") =>
              LET es == EntriesOf(itemIndex - 1)
              IN  /\ Len(es) = 1
                  /\ "items" \in DOMAIN es[1].json
                  /\ es[1].json.totalCount = remote.total
        /\ JustEnded("succeeded") /\ ~ctx.aggregate =>
              \A k \in 1..Len(EntriesOf(itemIndex - 1)) :
                  "items" \notin DOMAIN EntriesOf(itemIndex - 1)[k].json

\* C22 as stated: no update is rejected before its request is sent because
\* of the shape of its patch; an update that fails without a request failed
\* in a host accessor.
C22_UpdateNeverRejectedForItsPatch ==
    TakesData(ctx) /\ ctx.operation = "update"
        /\ local.error # NoError /\ local.requests = 0 =>
        local.error = HostError

\* C25 as stated: with "return all" off a listing issues one list request
\* per input item, which carries the limit given and, for the storage
\* listings of records and categories, the page given, and the listing ends
\* after that one request whatever the page holds.
C25_OneBoundedFetchPerItem ==
    (IsPaginated(ctx) \/ IsPlainList(ctx)) /\ ~ctx.returnAll =>
        /\ local.requests <= 1
        /\ \A req \in inflight :
              /\ req.n = 1 /\ req.list
              /\ "limit" \in DOMAIN req.qs /\ req.qs.limit = ctx.limit
              /\ ctx.node \in {"storage", "storageInline"} =>
                    "page" \in DOMAIN req.qs /\ req.qs.page = ctx.page
        /\ JustEnded("succeeded") =>
              local.requests = 1 /\ inflight = {}

\* C26: when execute has raised, what it raised is a NodeApiError or a
\* NodeOperationError; an error caught of either class is raised as it is,
\* any other one is wrapped in a NodeOperationError with its message, the
\* caught error as cause and the index of the failing item.
C26_UnknownErrorsAreWrapped ==
    pc = "raised" =>
        /\ ~ctx.continueOnFail
        /\ thrown.class \in {"NodeApiError", "NodeOperationError"}
        /\ IF local.error.class \in {"NodeApiError", "NodeOperationError"}
           THEN thrown = local.error
           ELSE /\ thrown.class = "NodeOperationError"
                /\ thrown.cause = local.error
                /\ thrown.message = local.error.message
                /\ thrown.itemIndex = itemIndex

\* C26 happens: the host fails on the third item, after two items went
\* through.
C26_HostFailsOnThirdItem ==
    /\ pc = "raised"
    /\ itemIndex = 2
    /\ local.error = HostError
    /\ thrown.class = "NodeOperationError"
    /\ thrown.cause = HostError
    /\ Len(returnData) = 2

\* C27: a request in flight belongs to the item being processed, which has
\* not ended; outside a "return all" collection it is the item's first and
\* only request, and in one every earlier request of the item was answered
\* with a full page. Once an item has ended, by a failure or otherwise, no
\* request is issued for it again, and the step in which a request fails
\* leaves none in flight.
C27_NoRequestIsRetried ==
    /\ [](\A req \in inflight :
             /\ req.item = itemIndex
             /\ outcome[req.item] = "pending"
             /\ req.n = local.requests
             /\ IF Collecting
                THEN Len(local.allItems) = (req.n - 1) * MAX_LIMIT_PER_REQUEST
                ELSE req.n = 1)
    /\ [](~Collecting => local.requests <= 1)
    /\ [][/\ \A i \in DOMAIN outcome :
                outcome[i] # "pending" => \A req \in inflight' : req.item # i
          /\ \A i \in DOMAIN outcome :
                /\ outcome[i] = "pending"
                /\ outcome'[i] \in {"failed-and-recorded", "failed-and-raised"}
                => inflight' = {}]_vars

\* C27 happens: the upload of the first item failed and was recorded; the
\* request now in flight is the first one of the second item.
C27_NextItemAfterFailedUpload ==
    /\ ctx.continueOnFail /\ ctx.nItems = 2
    /\ IsUpload(ctx)
    /\ pc = "await" /\ itemIndex = 1
    /\ outcome[0] = "failed-and-recorded"
    /\ returnData[1].json.error # ""
    /\ inflight = {Request(1, 1, FALSE, EmptyQs)}

\* C28: a "return all" collection waiting for a page eventually returns or
\* raises; the request in flight is never later than the first page with
\* fewer than 1000 items and every page before it was full; the loop issues
\* its next request exactly when the page just read has 1000 items and
\* returns exactly when it has fewer.
C28_ReturnAllTerminates ==
    /\ (Collecting /\ pc = "await") ~> (pc \in {"loop", "raised"})
    /\ [](Collecting =>
             \A req \in inflight :
                 /\ req.n <= FirstShortPage
                 /\ \A j \in 1..(req.n - 1) : PageSize(j) = MAX_LIMIT_PER_REQUEST)
    /\ [][Collecting /\ pc = "await" =>
             /\ local'.requests = local.requests + 1 =>
                   PageSize(local.requests) = MAX_LIMIT_PER_REQUEST
             /\ outcome'[itemIndex] = "succeeded" =>
                   /\ PageSize(local.requests) < MAX_LIMIT_PER_REQUEST
                   /\ inflight' = {}]_vars

\* C28 happens: the collection has returned after a fourth page with no
\* item, three full pages before it, and execute is about to return.
C28_ReturnedAfterEmptyFourthPage ==
    /\ Collecting /\ Rest = 3000
    /\ pc = "loop" /\ itemIndex = 1
    /\ outcome[0] = "succeeded"
    /\ local.requests = 4
    /\ inflight = {}
    /\ ENABLED Finish

\* C29: the output only grows at its end, by entries that are all tagged
\* with the index of the item being processed and, when they are the
\* elements of a list, follow each other as in the response; the item index
\* only goes up, and the last entry always belongs to an earlier item than
\* the one being processed. So the tags never decrease along the output and
\* the entries of one item are contiguous.
C29_OutputInItemOrder ==
    /\ [](returnData # <<>> =>
             returnData[Len(returnData)].pairedItem < itemIndex)
    /\ [][/\ itemIndex' >= itemIndex
          /\ returnData' # returnData =>
                LET n == Len(returnData)
                    new == SubSeq(returnData', n + 1, Len(returnData'))
                IN  /\ Len(returnData') > n
                    /\ SubSeq(returnData', 1, n) = returnData
                    /\ itemIndex' = itemIndex + 1
                    /\ \A k \in 1..Len(new) : new[k].pairedItem = itemIndex
                    /\ \A k \in 1..(Len(new) - 1) :
                          "id" \in DOMAIN new[k].json =>
                              new[k + 1].json.id = new[k].json.id + 1]_vars

\* C29 happens: two items each listed the same 37 files; the 37 entries of
\* item 0 come first, in the order of the response, then those of item 1.
C29_TwoListingsOneAfterTheOther ==
    /\ pc = "done" /\ ctx.nItems = 2
    /\ ctx.node = "files" /\ IsPaginated(ctx)
    /\ Len(returnData) = 74
    /\ returnData[37] = [json |-> [id |-> 37], pairedItem |-> 0]
    /\ returnData[38] = [json |-> [id |-> 1], pairedItem |-> 1]

\* The number of output entries tagged with input item i.
CountOf(i) ==
    Cardinality({k \in 1..Len(returnData) : returnData[k].pairedItem = i})

\* The items whose operation returned an array, and the elements in all.
ArrayResults == {k \in 1..Len(local.results) : local.results[k].isArray}

RECURSIVE ElementsIn(_)
ElementsIn(K) ==
    IF K = {} THEN 0
    ELSE LET k == CHOOSE x \in K : TRUE
         IN  local.results[k].n + ElementsIn(K \ {k})

\* When execute has returned, every input item has one output entry if its
\* operation threw (continue-on-fail being on) or returned a value that is
\* not an array, and n entries if it returned an array of n elements.
EntriesPerItem ==
    /\ Len(local.results) = ctx.nItems
    /\ \A i \in 0..(ctx.nItems - 1) :
          CountOf(i) = IF local.results[i + 1].isArray
                       THEN local.results[i + 1].n ELSE 1
    /\ \A i \in 0..(ctx.nItems - 1) :
          local.results[i + 1].threw =>
              ctx.continueOnFail /\ outcome[i] = "failed-and-recorded"

\* C30 as stated: the entries per item are as above, and there are as many
\* entries as items only when no operation returned an array.
C30_AsManyEntriesOnlyWithoutArrays ==
    pc = "done" =>
        /\ EntriesPerItem
        /\ Len(returnData) = ctx.nItems => ArrayResults = {}

\* C30: the entries per item are as above; so an item whose list is empty
\* has no entry, and there are as many entries as items exactly when the
\* arrays returned hold as many elements in all as there are arrays, which
\* is so when no operation returned an array and also when each array
\* returned holds one element.
C30_EntriesPerItem ==
    pc = "done" =>
        /\ EntriesPerItem
        /\ Len(returnData) = ctx.nItems - Cardinality(ArrayResults)
                                 + ElementsIn(ArrayResults)
        /\ ArrayResults = {} => Len(returnData) = ctx.nItems
        /\ Len(returnData) = ctx.nItems <=>
              ElementsIn(ArrayResults) = Cardinality(ArrayResults)

\* C30 happens: of three listings of 37 files the second failed and was
\* recorded: 37 entries, one, and 37.
C30_ListingFailedBetweenTwoOthers ==
    /\ pc = "done" /\ ctx.nItems = 3
    /\ local.results[1] = [threw |-> FALSE, isArray |-> TRUE, n |-> 37]
    /\ local.results[2] = Threw
    /\ local.results[3] = local.results[1]
    /\ Len(returnData) = 75

(***************************************************************************)
(* Properties of the surfaced errors                                       *)
(***************************************************************************)

\* The status codes the switch of handleApiError has a case for.
MappedStatusCodes == {400, 401, 404, 409, 429, 500, 502, 503}

\* The entity kind of a node's operations.
KindOfNode ==
    CASE ctx.node = "files" -> "file"
      [] ctx.node = "convert" -> "job"
      [] OTHER -> "record"

\* C7: a transport error answered with a status code of the table surfaces,
\* in every node, with the message and the description the shared table
\* gives for the node's entity kind.
C7_EveryNodeUsesSharedTable ==
    local.error.class = "NodeApiError"
        /\ local.error.cause.statusCode \in MappedStatusCodes =>
        LET cause == local.error.cause
            shared == ErrorText(cause.statusCode, ApiMessage(cause),
                                "get record", KindOfNode)
        IN  /\ local.error.message = shared.message
            /\ local.error.description = shared.description

HasDescription(error) ==
    "description" \in DOMAIN error /\ error.description # Undefined

\* C8: the error execute raises, and the entry it records under
\* continue-on-fail, carry the message of the error caught, its description
\* when it has one, its HTTP status code when it is an HTTP error, and the
\* index of the item.
C8_EverySurfacedErrorCarriesAll ==
    /\ pc = "raised" =>
          /\ thrown.message = local.error.message
          /\ thrown.itemIndex = itemIndex
          /\ HasDescription(local.error) =>
                thrown.description = local.error.description
          /\ local.error.class = "NodeApiError" =>
                thrown.httpCode = ToString(local.error.cause.statusCode)
    /\ JustEnded("failed-and-recorded") =>
          LET entry == returnData[Len(returnData)]
          IN  /\ entry.json.error = local.error.message
              /\ entry.pairedItem = itemIndex - 1
              /\ HasDescription(local.error) =>
                    /\ "description" \in DOMAIN entry.json
                    /\ entry.json.description = local.error.description
              /\ local.error.class = "NodeApiError" =>
                    /\ "httpCode" \in DOMAIN entry.json
                    /\ entry.json.httpCode =
                          ToString(local.error.cause.statusCode)

(***************************************************************************)
(* handleApiError on its own: calls with arguments drawn from the whole    *)
(* status table, the latest call and the one before it kept side by side   *)
(***************************************************************************)

\* Every status code of the table, one unmapped code and the absent code.
ErrStatusCodes == {400, 401, 404, 409, 429, 500, 502, 503, 418, NoStatusCode}

\* (response.body.error.message, message) of the caught error.
ErrMessages ==
    {<<"", "">>, <<"", "socket hang up">>, <<"key is taken", "Conflict">>}

ErrOperations == {"get record", "upload file"}

ErrItemIndexes == {0, 1}

IdleContext ==
    [node |-> "files", resource |-> "file", operation |-> "getMany",
     continueOnFail |-> FALSE, nItems |-> 0, returnAll |-> FALSE,
     aggregate |-> FALSE, limit |-> 50, offset |-> 0, page |-> 1]

InitErr ==
    /\ ctx = IdleContext
    /\ remote = [total |-> 0, failStatus |-> 429, applied |-> {}]
    /\ itemIndex = 0
    /\ pc = "loop"
    /\ local = IdleLocal
    /\ inflight = {}
    /\ returnData = <<>>
    /\ thrown = NoError
    /\ outcome = <<>>
    /\ errCall = NoCall
    /\ errPrev = NoCall
    /\ reqCall = NoCall
    /\ mpCall = NoCall

\* One call of handleApiError, its arguments drawn from the given sets.
Invoke(statusCodes, messages) ==
    \E statusCode \in statusCodes, m \in messages,
       operation \in ErrOperations, entityType \in EntityTypes,
       i \in ErrItemIndexes :
       errCall' =
           [called |-> TRUE, statusCode |-> statusCode,
            bodyMessage |-> m[1], message |-> m[2],
            operation |-> operation, entityType |-> entityType,
            itemIndex |-> i,
            result |-> handleApiError(HttpError(statusCode, m[1], m[2]),
                                      i, operation, entityType)]

\* A call over the whole status table.
CallHandleApiError ==
    /\ Invoke(ErrStatusCodes, ErrMessages)
    /\ UNCHANGED errPrev
    /\ UNCHANGED driverVars
    /\ UNCHANGED builderVars

SpecErr == InitErr /\ [][CallHandleApiError]_vars

\* Two calls in a row, the earlier one remembered.
PairStatusCodes == {409, 500, 418}

PairMessages ==
    {<<"", "">>, <<"", "key is taken">>, <<"key is taken", "Conflict">>}

CallHandleApiErrorAgain ==
    /\ Invoke(PairStatusCodes, PairMessages)
    /\ errPrev' = errCall
    /\ UNCHANGED driverVars
    /\ UNCHANGED builderVars

SpecErrPair == InitErr /\ [][CallHandleApiErrorAgain]_vars

(***************************************************************************)
(* Properties of handleApiError                                            *)
(***************************************************************************)

\* The API-supplied message of a call: the body's message, else the error's
\* message, else the literal.
SuppliedMessage(call) ==
    IF call.bodyMessage # "" THEN call.bodyMessage
    ELSE IF call.message # "" THEN call.message
    ELSE "Unknown issue"

\* The (message, description) pair of the table for a call.
TablePair(call) ==
    LET api == SuppliedMessage(call)
        kind == call.entityType
        code == call.statusCode
    IN  CASE code = 400 -> <<"Invalid request", api>>
          [] code = 401 ->
               <<"Invalid API key", "Check your Ainoflow API credentials">>
          [] code = 404 /\ kind = "record" ->
               <<"Record not found", "The specified record does not exist">>
          [] code = 404 /\ kind = "job" ->
               <<"Job not found",
                 "The specified job ID does not exist or has expired">>
          [] code = 404 /\ kind = "file" ->
               <<"File not found",
                 "The specified file does not exist or has been deleted">>
          [] code = 409 /\ kind = "record" -> <<"Record already exists", api>>
          [] code = 409 /\ kind = "job" -> <<"Job already exists", api>>
          [] code = 409 /\ kind = "file" ->
               <<"File already exists",
                 "Use \"Create or Replace\" operation to overwrite existing files">>
          [] code = 429 /\ kind = "job" ->
               <<"Rate limit exceeded",
                 "API rate/count limit reached for current scope">>
          [] code = 429 /\ kind \in {"record", "file"} ->
               <<"Storage limit reached",
                 "API rate/count limit reached for current scope">>
          [] code \in {500, 502, 503} ->
               <<"Server returned an unexpected response",
                 "Ainoflow API response: " \o api>>
          [] OTHER -> <<"Could not " \o call.operation, api>>

\* The (message, description) pair a call returned.
Pair(call) == <<call.result.message, call.result.description>>

\* C6: for every entity kind and every status code, mapped, unmapped or
\* absent, handleApiError returns the pair of the table, with 'Unknown
\* issue' as the API message of an error that carries none.
C6_HandleApiErrorFollowsTable ==
    errCall.called => Pair(errCall) = TablePair(errCall)

\* A call for an error with no status code and no message at all.
C6_NoStatusNoMessage ==
    /\ errCall.called
    /\ errCall.statusCode = NoStatusCode
    /\ errCall.bodyMessage = "" /\ errCall.message = ""
    /\ errCall.operation = "upload file"
    /\ Pair(errCall) = <<"Could not upload file", "Unknown issue">>

\* Two calls agree on status code, entity kind and API-supplied message.
SameKey(a, b) ==
    /\ a.statusCode = b.statusCode
    /\ a.entityType = b.entityType
    /\ SuppliedMessage(a) = SuppliedMessage(b)

\* C9 as stated: two calls that agree on status code, entity kind and
\* API-supplied message return the same pair.
C9_PairDependsOnKeyOnly ==
    errPrev.called /\ errCall.called /\ SameKey(errPrev, errCall) =>
        Pair(errPrev) = Pair(errCall)

\* C9: two calls that agree on status code, entity kind and API-supplied
\* message, and on the operation label when the status code is not one of
\* the table, return the same pair, whatever the item index, the raw error
\* and the calls made before.
C9_PairDependsOnKeyAndLabel ==
    /\ errPrev.called /\ errCall.called
    /\ SameKey(errPrev, errCall)
    /\ errCall.statusCode \in MappedStatusCodes
          \/ errPrev.operation = errCall.operation
    => Pair(errPrev) = Pair(errCall)

\* Two calls with the same key and everything else different.
C9_SameKeyOtherwiseDifferent ==
    /\ errPrev.called /\ errCall.called
    /\ SameKey(errPrev, errCall)
    /\ errCall.statusCode = 409
    /\ errPrev.operation # errCall.operation
    /\ errPrev.itemIndex # errCall.itemIndex
    /\ errPrev.bodyMessage # errCall.bodyMessage
    /\ Pair(errPrev) = Pair(errCall)

(***************************************************************************)
(* The options of the requests the operations issue                        *)
(***************************************************************************)

DEFAULT_BASE_URL == "https://api.ainoflow.io"

UPLOAD_TIMEOUT_MS == 600000

REQUEST_TIMEOUT_MS == 600000

\* (credentials.baseUrl as string) || DEFAULT_BASE_URL
getBaseUrl(credentials) ==
    IF credentials.baseUrl # "" THEN credentials.baseUrl ELSE DEFAULT_BASE_URL

API_BASE_PATH(c) ==
    IF c.node = "files" THEN "/api/v1/files" ELSE "/api/v1/storage/json"

\* encodeURIComponent on the keys drawn: "/" is escaped, unreserved
\* characters are kept.
encodeURIComponent(str) == IF str = "a/b" THEN "a%2Fb" ELSE str

\* A faulty buildTtlQueryParams: the absolute timestamp wins when both TTL
\* fields are given.
buildTtlQueryParamsPreferAt(additionalFields) ==
    IF additionalFields.expiresAt # ""
    THEN [expiresAt |-> additionalFields.expiresAt]
    ELSE WithIf(EmptyQs, additionalFields.expiresMs > 0,
                "expiresMs", additionalFields.expiresMs)

\* 0 stands for an absent (or zero, equally falsy) expiresMs.
buildTtlQueryParams(additionalFields) ==
    WithIf(WithIf(EmptyQs, additionalFields.expiresAt # "",
                  "expiresAt", additionalFields.expiresAt),
           additionalFields.expiresMs # 0 /\ additionalFields.expiresMs > 0,
           "expiresMs", additionalFields.expiresMs)

\* The url option: an origin written into it (or none) and the path, segment
\* by segment after the base path.
Url(origin, path) == [origin |-> origin, path |-> path]

Method(c) ==
    CASE c.node = "convert" /\ c.operation = "convert" -> "POST"
      [] c.operation = "create" -> "POST"
      [] c.operation = "createOrReplace" -> "PUT"
      [] c.operation = "update" -> "PATCH"
      [] c.operation = "delete" -> "DELETE"
      [] OTHER -> "GET"

Path(c, params) ==
    LET category == encodeURIComponent(params.category)
        key == encodeURIComponent(params.key)
    IN  CASE c.node = "convert" /\ c.operation = "convert" ->
               IF params.inputSource = "url"
               THEN <<"/api/v1/convert/submit-url">>
               ELSE <<"/api/v1/convert/submit-file">>
          [] c.node = "convert" ->
               <<"/api/v1/convert/jobs", encodeURIComponent(params.jobId)>>
          [] c.resource = "category" -> <<API_BASE_PATH(c)>>
          [] c.operation = "getMany" -> <<API_BASE_PATH(c), category>>
          [] c.operation = "create" ->
               IF params.key # "" THEN <<API_BASE_PATH(c), category, key>>
               ELSE <<API_BASE_PATH(c), category>>
          [] c.operation = "getMetadata" ->
               <<API_BASE_PATH(c), category, key, "meta">>
          [] c.operation = "getUrl" ->
               <<API_BASE_PATH(c), category, key, "url">>
          [] OTHER -> <<API_BASE_PATH(c), category, key>>

\* Which listings read prefix, and which sortBy and sortOrder.
TakesPrefix(c) == c.node = "files"
TakesSort(c) == c.resource \in {"file", "record"}

\* A faulty ListOptions: every option the listing reads is sent, set or not.
ListOptionsUnguarded(c, params, qs) ==
    WithIf(WithIf(WithIf(qs, TakesPrefix(c), "prefix", params.prefix),
                  TakesSort(c), "sortBy", params.sortBy),
           TakesSort(c), "sortOrder", params.sortOrder)

\* if (options.prefix) qs.prefix = options.prefix, and the like, on top of
\* the query of a listing.
ListOptions(c, params, qs) ==
    WithIf(WithIf(WithIf(qs, TakesPrefix(c) /\ params.prefix # "",
                         "prefix", params.prefix),
                  TakesSort(c) /\ params.sortBy # "", "sortBy", params.sortBy),
           TakesSort(c) /\ params.sortOrder # "", "sortOrder", params.sortOrder)

\* The query of the operation's first request.
Qs(c, params) ==
    CASE TakesData(c) /\ c.operation \in {"create", "createOrReplace"} ->
           buildTtlQueryParams(params)
      [] c.node = "files" /\ c.operation = "getUrl" ->
           WithIf(EmptyQs, params.expirySeconds # 0,
                  "expirySeconds", params.expirySeconds)
      [] IsPaginated(c) ->
           ListOptions(c, params,
               IF c.returnAll THEN PageQs(c, FirstCursor(c)) ELSE SingleQs(c))
      [] OTHER -> EmptyQs

\* The options the operation hands to httpRequest(WithAuthentication).
\* A binary upload writes the base URL into url; the storage node with the
\* inline error handler sets no baseURL.
RequestOptions(c, params) ==
    LET base == getBaseUrl(params.credentials)
        absolute == IsUpload(c) /\ params.inputSource = "binary"
        qs == Qs(c, params)
        r0 == [method |-> Method(c),
               url |-> Url(IF absolute THEN base ELSE "", Path(c, params))]
        r1 == WithIf(r0, ~absolute /\ c.node # "storageInline", "baseURL", base)
        r2 == WithIf(r1, DOMAIN qs # {}, "qs", qs)
    IN  WithIf(r2, IsUpload(c), "timeout",
               IF c.node = "convert" THEN REQUEST_TIMEOUT_MS
               ELSE UPLOAD_TIMEOUT_MS)

\* AinoflowApi.authenticate: the headers the host's authenticated helper
\* adds to a request made with the credential. A faulty one adds none.
authenticateNothing(credentials) == EmptyQs

authenticate(credentials) ==
    [Authorization |-> <<"Bearer ", credentials.apiKey>>]

\* The helper the operation calls: a binary upload builds its headers by
\* hand and calls httpRequest.
Helper(c, params) ==
    IF IsUpload(c) /\ params.inputSource = "binary" THEN "httpRequest"
    ELSE "httpRequestWithAuthentication"

\* The headers option, for the operations that set it.
Headers(c, params) ==
    CASE IsUpload(c) /\ params.inputSource = "binary" ->
           With([Authorization |-> <<"Bearer ", params.credentials.apiKey>>],
                "Content-Type", "multipart/form-data")
      [] IsUpload(c) /\ c.node = "files" ->
           With(EmptyQs, "Content-Type", "multipart/form-data")
      [] OTHER -> EmptyQs

\* The body option: what it is and the field that carries the input.
Body(c, params) ==
    CASE IsUpload(c) /\ params.inputSource = "binary" ->
           [kind |-> "multipart", field |-> "file"]
      [] IsUpload(c) /\ c.node = "files" ->
           [kind |-> "multipart", field |-> "sourceUrl"]
      [] IsUpload(c) -> [kind |-> "json", field |-> "sourceUrl"]
      [] TakesData(c) -> [kind |-> "json", field |-> "data"]
      [] OTHER -> [kind |-> "none", field |-> ""]

\* The request as the helper sends it: the authenticated helper lays the
\* credential's headers over those of the options.
Sent(c, params) ==
    LET own == Headers(c, params)
        auth == IF Helper(c, params) = "httpRequestWithAuthentication"
                THEN authenticate(params.credentials) ELSE EmptyQs
    IN  [helper |-> Helper(c, params),
         method |-> Method(c),
         path |-> Path(c, params),
         headers |-> [k \in DOMAIN own \cup DOMAIN auth |->
                         IF k \in DOMAIN auth THEN auth[k] ELSE own[k]],
         body |-> Body(c, params)]

\* The operations requests are built for.
RequestContexts ==
    {c \in Contexts :
        /\ ReadsItsParameters(c) /\ ~IsUnknown(c)
        /\ c.nItems = 1 /\ ~c.continueOnFail}

UsesKey(c) ==
    /\ c.node # "convert"
    /\ c.resource # "category"
    /\ c.operation # "getMany"

HasTtl(c) == TakesData(c) /\ c.operation \in {"create", "createOrReplace"}

\* The parameters of the item, as far as they reach the request options;
\* they have passed the operation's validation.
RequestParams(c) ==
    [category : {"invoices"},
     key : IF UsesKey(c) THEN {"", "inv-1", "a/b"} ELSE {""},
     inputSource : IF IsUpload(c) THEN {"url", "binary"} ELSE {"binary"},
     expiresAt : IF HasTtl(c) THEN {"", "2030-01-01T00:00:00Z"} ELSE {""},
     expiresMs : IF HasTtl(c) THEN {-5, 0, 60000} ELSE {0},
     expirySeconds : IF c.operation = "getUrl" THEN {0, 3600} ELSE {0},
     jobId : {"job-1"},
     prefix : IF IsPaginated(c) /\ TakesPrefix(c) THEN {"", "2024/"} ELSE {""},
     sortBy : IF IsPaginated(c) /\ TakesSort(c) THEN {"", "key"} ELSE {""},
     sortOrder : IF IsPaginated(c) /\ TakesSort(c) THEN {"", "desc"} ELSE {""},
     credentials : [baseUrl : {"", "https://eu.ainoflow.example"},
                    apiKey : {"key-1", "key-2"}]]

\* One operation builds the options of its first request.
BuildRequest ==
    /\ ~reqCall.called
    /\ \E c \in RequestContexts :
          \E params \in RequestParams(c) :
              reqCall' = [called |-> TRUE, c |-> c, params |-> params,
                          request |-> RequestOptions(c, params),
                          sent |-> Sent(c, params)]
    /\ UNCHANGED mpCall
    /\ UNCHANGED errVars
    /\ UNCHANGED driverVars

SpecRequest == InitErr /\ [][BuildRequest]_vars

(***************************************************************************)
(* Properties of the request options                                       *)
(***************************************************************************)

\* The query of a request, empty when the option is not set.
QsOf(request) == IF "qs" \in DOMAIN request THEN request.qs ELSE EmptyQs

\* Where a request goes: axios resolves a url without origin against
\* baseURL; "" when there is neither.
AddressOf(request) ==
    IF request.url.origin # "" THEN request.url.origin
    ELSE IF "baseURL" \in DOMAIN request THEN request.baseURL
    ELSE ""

\* C15: for files and storage records, a create request built without a key
\* has the path base path / category and nothing more; a create-or-replace
\* request has a third segment, the key, which is not empty.
C15_KeySegmentOnlyWhenGiven ==
    reqCall.called /\ reqCall.c.node \in {"files", "storage"}
        /\ reqCall.c.resource \in {"file", "record"} =>
        LET path == reqCall.request.url.path
            base == IF reqCall.c.node = "files" THEN "/api/v1/files"
                    ELSE "/api/v1/storage/json"
        IN  /\ reqCall.c.operation = "create" /\ reqCall.params.key = "" =>
                  path = <<base, "invoices">>
            /\ reqCall.c.operation = "createOrReplace" =>
                  /\ Len(path) = 3
                  /\ path[1] = base /\ path[2] = "invoices"
                  /\ path[3] # ""

\* C16 as stated: a storage create or create-or-replace given both
\* expiresAt and expiresMs forwards both, with the values given.
C16_BothTtlFieldsForwarded ==
    reqCall.called /\ HasTtl(reqCall.c)
        /\ reqCall.params.expiresAt # "" /\ reqCall.params.expiresMs # 0 =>
        /\ DOMAIN QsOf(reqCall.request) = {"expiresAt", "expiresMs"}
        /\ QsOf(reqCall.request).expiresAt = reqCall.params.expiresAt
        /\ QsOf(reqCall.request).expiresMs = reqCall.params.expiresMs

\* C16: a storage create or create-or-replace forwards expiresAt exactly
\* when it is not empty and expiresMs exactly when it is positive, each
\* with the value given and independently of the other; a zero or negative
\* expiresMs is not forwarded.
C16_TtlForwardedWhenSetAndPositive ==
    reqCall.called /\ HasTtl(reqCall.c) =>
        LET qs == QsOf(reqCall.request)
        IN  /\ DOMAIN qs \subseteq {"expiresAt", "expiresMs"}
            /\ "expiresAt" \in DOMAIN qs <=> reqCall.params.expiresAt # ""
            /\ "expiresMs" \in DOMAIN qs <=> reqCall.params.expiresMs > 0
            /\ "expiresAt" \in DOMAIN qs =>
                  qs.expiresAt = reqCall.params.expiresAt
            /\ "expiresMs" \in DOMAIN qs =>
                  qs.expiresMs = reqCall.params.expiresMs

\* A create given a timestamp and 60000 ms: both are in the query.
C16_BothGivenBothSent ==
    /\ reqCall.called /\ reqCall.c.node = "storage"
    /\ reqCall.c.operation = "create"
    /\ reqCall.params.expiresAt = "2030-01-01T00:00:00Z"
    /\ reqCall.params.expiresMs = 60000
    /\ QsOf(reqCall.request) =
          [expiresAt |-> "2030-01-01T00:00:00Z", expiresMs |-> 60000]

\* The upload-class and download-class operations.
IsTransfer(c) ==
    \/ c.node = "files" /\ c.resource = "file"
          /\ c.operation \in {"create", "createOrReplace", "download"}
    \/ c.node = "convert" /\ c.operation = "convert"

\* C19: a request has the timeout option, set to 600000 ms, exactly when its
\* operation is a file create, create-or-replace or download or a
\* conversion submit.
C19_TransfersHaveTenMinuteTimeout ==
    reqCall.called =>
        IF IsTransfer(reqCall.c)
        THEN /\ "timeout" \in DOMAIN reqCall.request
             /\ reqCall.request.timeout = 600000
        ELSE "timeout" \notin DOMAIN reqCall.request

\* C20: every request goes to the credential's baseUrl when it is not
\* empty and to https://api.ainoflow.io otherwise.
C20_AddressedToCredentialBaseUrl ==
    reqCall.called =>
        AddressOf(reqCall.request) =
            IF reqCall.params.credentials.baseUrl # ""
            THEN reqCall.params.credentials.baseUrl
            ELSE "https://api.ainoflow.io"

\* C21: every request, as sent, carries the header Authorization with the
\* value "Bearer " followed by the apiKey of the credential, whether the
\* operation calls the authenticated helper or builds the headers by hand.
C21_BearerKeyOnEveryRequest ==
    reqCall.called =>
        /\ "Authorization" \in DOMAIN reqCall.sent.headers
        /\ reqCall.sent.headers["Authorization"] =
              <<"Bearer ", reqCall.params.credentials.apiKey>>

\* A binary upload went out through httpRequest with the second key, and
\* kept its multipart content type next to the hand-written header.
C21_BinaryUploadWithSecondKey ==
    /\ reqCall.called
    /\ IsUpload(reqCall.c) /\ reqCall.params.inputSource = "binary"
    /\ reqCall.params.credentials.apiKey = "key-2"
    /\ reqCall.sent.helper = "httpRequest"
    /\ DOMAIN reqCall.sent.headers = {"Authorization", "Content-Type"}
    /\ reqCall.sent.headers["Authorization"] = <<"Bearer ", "key-2">>

\* The input source the upload was not given.
OtherSource(inputSource) == IF inputSource = "binary" THEN "url" ELSE "binary"

\* C23: an upload has the same method and path as the upload of the same
\* parameters from the other input source; both bodies are multipart, one
\* with the field file and the other with the field sourceUrl.
C23_SameEndpointForBothSources ==
    reqCall.called /\ IsUpload(reqCall.c) =>
        LET other == Sent(reqCall.c,
                          [reqCall.params EXCEPT
                              !.inputSource = OtherSource(@)])
        IN  /\ reqCall.sent.method = other.method
            /\ reqCall.sent.path = other.path
            /\ reqCall.sent.body.kind = "multipart"
            /\ other.body.kind = "multipart"
            /\ {reqCall.sent.body.field, other.body.field} =
                  {"file", "sourceUrl"}

\* The optional query parameters the caller left unset or empty, offset
\* included or not.
UnsetOptions(call, withOffset) ==
    {k \in {"prefix", "sortBy", "sortOrder", "expiresAt"} :
        call.params[k] = ""}
    \cup {k \in {"expirySeconds", "expiresMs"} : call.params[k] = 0}
    \cup (IF call.c.aggregate THEN {} ELSE {"aggregate"})
    \cup (IF withOffset /\ call.c.offset = 0 THEN {"offset"} ELSE {})

\* No text parameter of the query is the empty string and no numeric one
\* of the given names is zero.
NoEmptyValue(qs, numeric) ==
    /\ \A k \in DOMAIN qs \cap {"prefix", "sortBy", "sortOrder", "expiresAt"} :
          qs[k] # ""
    /\ \A k \in DOMAIN qs \cap numeric : qs[k] # 0

\* A request has the qs option only with at least one parameter in it.
NoEmptyQuery(request) ==
    "qs" \in DOMAIN request => DOMAIN request.qs # {}

\* C24 as stated: an optional query parameter (prefix, sortBy, sortOrder,
\* aggregate, offset, expirySeconds, expiresAt, expiresMs) left unset or
\* empty is absent from the query, none is sent with an empty value, and a
\* request without query parameters has no query object.
C24_UnsetOptionsAreAbsent ==
    reqCall.called =>
        LET qs == QsOf(reqCall.request)
        IN  /\ DOMAIN qs \cap UnsetOptions(reqCall, TRUE) = {}
            /\ NoEmptyValue(qs, {"offset", "expirySeconds", "expiresMs"})
            /\ NoEmptyQuery(reqCall.request)

\* The files listing in "return all" mode, whose query carries the offset
\* as the cursor of its loop.
IsFilesReturnAll(c) == c.node = "files" /\ IsPaginated(c) /\ c.returnAll

\* C24, amended: the same holds of every optional query parameter but the
\* offset of a files listing in "return all" mode, which is always sent
\* and is 0 when the caller left it unset; in every other request an
\* unset offset is absent as well.
C24_UnsetOptionsAreAbsentButTheCursor ==
    reqCall.called =>
        LET qs == QsOf(reqCall.request)
            cursor == IsFilesReturnAll(reqCall.c)
        IN  /\ DOMAIN qs \cap UnsetOptions(reqCall, ~cursor) = {}
            /\ NoEmptyValue(qs, {"expirySeconds", "expiresMs"}
                                  \cup (IF cursor THEN {} ELSE {"offset"}))
            /\ cursor => /\ "offset" \in DOMAIN qs
                          /\ qs.offset = reqCall.c.offset
            /\ NoEmptyQuery(reqCall.request)

\* A files listing in "return all" mode went out with a prefix and with
\* nothing else set: its query has the limit, the prefix and offset 0.
C24_ReturnAllWithPrefixOnly ==
    /\ reqCall.called
    /\ IsFilesReturnAll(reqCall.c)
    /\ reqCall.c.offset = 0 /\ ~reqCall.c.aggregate
    /\ reqCall.params.prefix = "2024/"
    /\ reqCall.params.sortBy = "" /\ reqCall.params.sortOrder = ""
    /\ QsOf(reqCall.request) =
          [limit |-> MAX_LIMIT_PER_REQUEST, offset |-> 0, prefix |-> "2024/"]

(***************************************************************************)
(* Multipart bodies: the builders, byte by byte, and a multipart reader    *)
(***************************************************************************)

\* Bodies and strings are sequences of bytes. The header texts the builders
\* write and the boundary are one element each; values, file names and
\* payloads are made of the single bytes below.
CR == "\r"
LF == "\n"
QUOTE == "\""
DASH == "-"
HDR_DISPOSITION == "Content-Disposition: form-data; name="
HDR_FILENAME == "; filename="
HDR_CONTENT_TYPE == "Content-Type: "

\* `----n8nFormBoundary${Date.now()}${Math.random().toString(36).substring(2)}`:
\* one of the values a call may draw. No payload, name or value drawn holds
\* a boundary.
Boundaries == {"----n8nFormBoundary1a", "----n8nFormBoundary2b"}

\* `--${boundary}\r\n`
Delimiter(boundary) == <<DASH, DASH, boundary, CR, LF>>

\* A faulty ClosingDelimiter: the two closing dashes are missing.
ClosingDelimiterOpen(boundary) == <<DASH, DASH, boundary, CR, LF>>

\* `--${boundary}--\r\n`
ClosingDelimiter(boundary) == <<DASH, DASH, boundary, DASH, DASH, CR, LF>>

\* `--${boundary}\r\n` + `Content-Disposition: form-data; name="${name}"\r\n\r\n`
\*   + `${value}\r\n`
FieldPart(boundary, name, value) ==
    Delimiter(boundary)
        \o <<HDR_DISPOSITION, QUOTE, name, QUOTE, CR, LF, CR, LF>>
        \o value \o <<CR, LF>>

\* filePreamble
FilePreamble(boundary, fileName, mimeType) ==
    Delimiter(boundary)
        \o <<HDR_DISPOSITION, QUOTE, "file", QUOTE, HDR_FILENAME, QUOTE>>
        \o fileName
        \o <<QUOTE, CR, LF, HDR_CONTENT_TYPE>> \o mimeType
        \o <<CR, LF, CR, LF>>

\* A faulty FieldParts: a part is written for every field, empty or not.
RECURSIVE FieldPartsUnguarded(_, _)
FieldPartsUnguarded(boundary, fields) ==
    IF fields = <<>> THEN <<>>
    ELSE FieldPart(boundary, Head(fields)[1], Head(fields)[2])
            \o FieldPartsUnguarded(boundary, Tail(fields))

\* for (const [name, value] of Object.entries(additionalFields))
\*     if (value) parts.push(fieldPart)
RECURSIVE FieldParts(_, _)
FieldParts(boundary, fields) ==
    IF fields = <<>> THEN <<>>
    ELSE (IF Head(fields)[2] # <<>>
          THEN FieldPart(boundary, Head(fields)[1], Head(fields)[2])
          ELSE <<>>)
            \o FieldParts(boundary, Tail(fields))

buildMultipartBody(boundary, fileBuffer, fileName, mimeType, additionalFields) ==
    [body |-> FilePreamble(boundary, fileName, mimeType)
                \o fileBuffer \o <<CR, LF>>
                \o FieldParts(boundary, additionalFields)
                \o ClosingDelimiter(boundary),
     boundary |-> boundary]

buildUrlMultipartBody(boundary, sourceUrl, additionalFields) ==
    [body |-> FieldPart(boundary, "sourceUrl", sourceUrl)
                \o FieldParts(boundary, additionalFields)
                \o ClosingDelimiter(boundary),
     boundary |-> boundary]

\* formFieldsBody of submitViaBinary: every collected field, no test.
RECURSIVE FormFieldsBody(_, _)
FormFieldsBody(boundary, formFields) ==
    IF formFields = <<>> THEN <<>>
    ELSE FieldPart(boundary, Head(formFields)[1], Head(formFields)[2])
            \o FormFieldsBody(boundary, Tail(formFields))

\* The body submitViaBinary concatenates: fields, file, `\r\n` + closing.
SubmitBody(boundary, fileBuffer, fileName, mimeType, formFields) ==
    [body |-> FormFieldsBody(boundary, formFields)
                \o FilePreamble(boundary, fileName, mimeType)
                \o fileBuffer
                \o <<CR, LF>> \o ClosingDelimiter(boundary),
     boundary |-> boundary]

\* languages.join(',')
RECURSIVE Join(_)
Join(list) ==
    IF list = <<>> THEN <<>>
    ELSE IF Len(list) = 1 THEN <<Head(list)>>
    ELSE <<Head(list), ",">> \o Join(Tail(list))

\* formFields of submitViaBinary: the four fields with their defaults, then
\* the optional ones that are set. <<>> is an empty string or an unset
\* option; jobExpiryInMinutes is a key that is there or not.
SubmitFormFields(languages, outputs, additionalFields) ==
    <<<<"languages", Join(languages)>>, <<"outputs", Join(outputs)>>,
      <<"response", IF additionalFields.response # <<>>
                    THEN additionalFields.response ELSE <<"persisted">>>>,
      <<"models", IF additionalFields.models # <<>>
                  THEN additionalFields.models ELSE <<"auto">>>>>>
    \o (IF additionalFields.webhookUrl # <<>>
        THEN <<<<"webhookUrl", additionalFields.webhookUrl>>>> ELSE <<>>)
    \o (IF additionalFields.reference # <<>>
        THEN <<<<"reference", additionalFields.reference>>>> ELSE <<>>)
    \o (IF "jobExpiryInMinutes" \in DOMAIN additionalFields
        THEN <<<<"jobExpiryInMinutes",
                 <<ToString(additionalFields.jobExpiryInMinutes)>>>>>>
        ELSE <<>>)

\* 'Content-Type': `multipart/form-data; boundary=${boundary}`
ContentTypeHeader(boundary) == <<"multipart/form-data; boundary=", boundary>>

\* binaryData.fileName || 'file'
FileNameOf(binaryData) ==
    IF binaryData.fileName # <<>> THEN binaryData.fileName
    ELSE <<"f", "i", "l", "e">>

\* binaryData.mimeType || 'application/octet-stream'
MimeTypeOf(binaryData) ==
    IF binaryData.mimeType # <<>> THEN binaryData.mimeType
    ELSE <<"application/octet-stream">>

\* What each uploader hands to the HTTP helper, with the inputs its body was
\* built from: fields are the <<name, value>> pairs in the order given.
uploadViaBinary(boundary, binaryData, fileBuffer, additionalFields) ==
    LET built == buildMultipartBody(boundary, fileBuffer, FileNameOf(binaryData),
                                    MimeTypeOf(binaryData), additionalFields)
    IN  [called |-> TRUE, kind |-> "file", fields |-> additionalFields,
         hasFile |-> TRUE, fileBuffer |-> fileBuffer,
         fileName |-> FileNameOf(binaryData),
         mimeType |-> MimeTypeOf(binaryData),
         boundary |-> built.boundary, body |-> built.body,
         contentType |-> ContentTypeHeader(built.boundary)]

uploadViaUrl(boundary, sourceUrl, additionalFields) ==
    LET built == buildUrlMultipartBody(boundary, sourceUrl, additionalFields)
    IN  [called |-> TRUE, kind |-> "url",
         fields |-> <<<<"sourceUrl", sourceUrl>>>> \o additionalFields,
         hasFile |-> FALSE, fileBuffer |-> <<>>, fileName |-> <<>>,
         mimeType |-> <<>>,
         boundary |-> built.boundary, body |-> built.body,
         contentType |-> ContentTypeHeader(built.boundary)]

submitViaBinary(boundary, binaryData, fileBuffer, languages, outputs, additionalFields) ==
    LET formFields == SubmitFormFields(languages, outputs, additionalFields)
        built == SubmitBody(boundary, fileBuffer, FileNameOf(binaryData),
                            MimeTypeOf(binaryData), formFields)
    IN  [called |-> TRUE, kind |-> "submit",
         fields |-> <<<<"languages", Join(languages)>>,
                      <<"outputs", Join(outputs)>>,
                      <<"response", formFields[3][2]>>,
                      <<"models", formFields[4][2]>>,
                      <<"webhookUrl", additionalFields.webhookUrl>>,
                      <<"reference", additionalFields.reference>>,
                      <<"jobExpiryInMinutes",
                        IF "jobExpiryInMinutes" \in DOMAIN additionalFields
                        THEN <<ToString(additionalFields.jobExpiryInMinutes)>>
                        ELSE <<>>>>>>,
         hasFile |-> TRUE, fileBuffer |-> fileBuffer,
         fileName |-> FileNameOf(binaryData),
         mimeType |-> MimeTypeOf(binaryData),
         boundary |-> built.boundary, body |-> built.body,
         contentType |-> ContentTypeHeader(built.boundary)]

(***************************************************************************)
(* One upload: the request an uploader builds                              *)
(***************************************************************************)

Payloads ==
    {<<>>, <<"a">>, <<CR, LF>>, <<"a", CR, LF, DASH, DASH, "a">>,
     <<CR, LF, CR, LF, "a">>, <<DASH, DASH>>}

FileNames == {<<>>, <<"a">>, <<"a", QUOTE, "b">>, <<"a", CR, LF, "b">>}
MimeTypes == {<<>>, <<"application/pdf">>}
FieldValues == {<<>>, <<"a">>, <<"a", CR, LF, "b">>}
BinaryData == [fileName : FileNames, mimeType : MimeTypes]

\* Record<string, string> in insertion order.
AdditionalFields ==
    {<<<<"expiresAt", v>>, <<"note", w>>>> : v \in FieldValues, w \in {<<>>, <<"b">>}}

ConvertAdditionalFields ==
    LET common == [response : {<<>>, <<"inline">>}, models : {<<>>},
                   webhookUrl : {<<>>, <<"h">>}, reference : {<<>>, <<"r">>}]
    IN  common \cup {With(f, "jobExpiryInMinutes", n) : f \in common, n \in {0, 30}}

\* The uploads that may be asked for: the inputs of one uploader.
Uploads ==
    [kind : {"file"}, binaryData : BinaryData, fileBuffer : Payloads,
     additionalFields : AdditionalFields]
    \cup [kind : {"url"}, sourceUrl : {<<"h", ":", "a">>},
          additionalFields : AdditionalFields]
    \cup [kind : {"submit"}, binaryData : BinaryData, fileBuffer : Payloads,
          languages : {<<"en">>, <<"en", "de">>}, outputs : {<<"markdown">>},
          additionalFields : ConvertAdditionalFields]

InitMultipart ==
    /\ ctx = IdleContext
    /\ remote = [total |-> 0, failStatus |-> 429, applied |-> {}]
    /\ itemIndex = 0
    /\ pc = "loop"
    /\ local = IdleLocal
    /\ inflight = {}
    /\ returnData = <<>>
    /\ thrown = NoError
    /\ outcome = <<>>
    /\ errCall = NoCall
    /\ errPrev = NoCall
    /\ reqCall = NoCall
    /\ mpCall \in {[called |-> FALSE, input |-> u] : u \in Uploads}

UploadBinary ==
    /\ ~mpCall.called
    /\ mpCall.input.kind = "file"
    /\ \E boundary \in Boundaries :
          mpCall' = uploadViaBinary(boundary, mpCall.input.binaryData,
                                         mpCall.input.fileBuffer,
                                         mpCall.input.additionalFields)
    /\ UNCHANGED reqCall
    /\ UNCHANGED errVars
    /\ UNCHANGED driverVars

UploadUrl ==
    /\ ~mpCall.called
    /\ mpCall.input.kind = "url"
    /\ \E boundary \in Boundaries :
          mpCall' = uploadViaUrl(boundary, mpCall.input.sourceUrl,
                                      mpCall.input.additionalFields)
    /\ UNCHANGED reqCall
    /\ UNCHANGED errVars
    /\ UNCHANGED driverVars

SubmitBinary ==
    /\ ~mpCall.called
    /\ mpCall.input.kind = "submit"
    /\ \E boundary \in Boundaries :
          mpCall' = submitViaBinary(boundary, mpCall.input.binaryData,
                                         mpCall.input.fileBuffer,
                                         mpCall.input.languages,
                                         mpCall.input.outputs,
                                         mpCall.input.additionalFields)
    /\ UNCHANGED reqCall
    /\ UNCHANGED errVars
    /\ UNCHANGED driverVars

SpecMultipart == InitMultipart /\ [][UploadBinary \/ UploadUrl \/ SubmitBinary]_vars

(***************************************************************************)
(* Properties of the multipart bodies                                      *)
(***************************************************************************)

\* A multipart/form-data reader (RFC 7578 over RFC 2046).

\* Where pat occurs in body.
Positions(body, pat) ==
    {i \in 1..(Len(body) - Len(pat) + 1) : SubSeq(body, i, i + Len(pat) - 1) = pat}

Least(S) == CHOOSE x \in S : \A y \in S : x <= y

RECURSIVE Ascending(_)
Ascending(S) ==
    IF S = {} THEN <<>> ELSE <<Least(S)>> \o Ascending(S \ {Least(S)})

MalformedPart ==
    [malformed |-> TRUE, name |-> "", value |-> <<>>, isFile |-> FALSE,
     fileName |-> <<>>, contentType |-> <<>>]

\* The headers of one part: name="..." and, for a file, filename="..." up to
\* the next double quote, then the Content-Type line.
ReadHeaders(h, data) ==
    IF Len(h) < 4 \/ h[1] # HDR_DISPOSITION \/ h[2] # QUOTE \/ h[4] # QUOTE
    THEN MalformedPart
    ELSE IF Len(h) = 4
    THEN [malformed |-> FALSE, name |-> h[3], value |-> data, isFile |-> FALSE,
          fileName |-> <<>>, contentType |-> <<>>]
    ELSE IF Len(h) >= 6 /\ h[5] = HDR_FILENAME /\ h[6] = QUOTE
    THEN LET closing == {k \in 7..Len(h) : h[k] = QUOTE}
         IN  IF closing = {} THEN MalformedPart
             ELSE LET k == Least(closing)
                      rest == SubSeq(h, k + 1, Len(h))
                  IN  IF Len(rest) >= 3 /\ rest[1] = CR /\ rest[2] = LF
                            /\ rest[3] = HDR_CONTENT_TYPE
                      THEN [malformed |-> FALSE, name |-> h[3], value |-> data,
                            isFile |-> TRUE, fileName |-> SubSeq(h, 7, k - 1),
                            contentType |-> SubSeq(rest, 4, Len(rest))]
                      ELSE MalformedPart
    ELSE MalformedPart

\* One part: headers, a blank line, the data.
ReadPart(content) ==
    LET blank == Positions(content, <<CR, LF, CR, LF>>)
    IN  IF blank = {} THEN MalformedPart
        ELSE LET j == Least(blank)
             IN  ReadHeaders(SubSeq(content, 1, j - 1),
                             SubSeq(content, j + 4, Len(content)))

\* The parts of body: a delimiter is "--" boundary at the start of the body
\* or after CR LF; the first one followed by "--" closes the body; the CR LF
\* before a delimiter belongs to the delimiter.
ReadMultipart(body, boundary) ==
    LET starts == {i \in Positions(body, <<DASH, DASH, boundary>>) :
                      i = 1 \/ (i >= 3 /\ body[i - 2] = CR /\ body[i - 1] = LF)}
        closes == {i \in starts : i + 4 <= Len(body) /\ body[i + 3] = DASH
                                     /\ body[i + 4] = DASH}
    IN  IF closes = {} THEN [ok |-> FALSE, parts |-> <<>>]
        ELSE LET end == Least(closes)
                 seq == Ascending({i \in starts : i < end}) \o <<end>>
             IN  [ok |-> \A k \in 1..(Len(seq) - 1) :
                            body[seq[k] + 3] = CR /\ body[seq[k] + 4] = LF,
                  parts |-> [k \in 1..(Len(seq) - 1) |->
                                ReadPart(SubSeq(body, seq[k] + 5, seq[k + 1] - 3))]]

\* Where the body holds a part header naming the field.
PartsNamed(name) ==
    Positions(mpCall.body, <<HDR_DISPOSITION, QUOTE, name, QUOTE>>)

\* Where the body holds a plain part of that name with nothing in it.
EmptyPartsNamed(name) ==
    Positions(mpCall.body,
              <<HDR_DISPOSITION, QUOTE, name, QUOTE, CR, LF, CR, LF, CR, LF,
                DASH, DASH, mpCall.boundary>>)

\* C12: in the file-upload, URL-upload and submit-file bodies, a field whose
\* value is empty or absent has no part of its name, a field with a
\* non-empty value has exactly one, and no plain part has an empty body.
C12_EmptyFieldsHaveNoPart ==
    mpCall.called =>
        \A k \in 1..Len(mpCall.fields) :
            LET name == mpCall.fields[k][1]
                value == mpCall.fields[k][2]
            IN  /\ Cardinality(PartsNamed(name)) = (IF value = <<>> THEN 0 ELSE 1)
                /\ EmptyPartsNamed(name) = {}

\* C12 happens: an upload given an empty expiresAt and a non-empty note.
C12_EmptyAndFilledFieldGiven ==
    /\ mpCall.called
    /\ mpCall.kind = "file"
    /\ mpCall.fields[1] = <<"expiresAt", <<>>>>
    /\ mpCall.fields[2][2] # <<>>
    /\ PartsNamed("expiresAt") = {}
    /\ Cardinality(PartsNamed("note")) = 1

\* What was given, as the parts a reader should hand back, in the order the
\* uploader writes them.
GivenFile ==
    [malformed |-> FALSE, name |-> "file", value |-> mpCall.fileBuffer,
     isFile |-> TRUE, fileName |-> mpCall.fileName,
     contentType |-> mpCall.mimeType]

GivenField(pair) ==
    [malformed |-> FALSE, name |-> pair[1], value |-> pair[2], isFile |-> FALSE,
     fileName |-> <<>>, contentType |-> <<>>]

GivenParts ==
    LET filled == SelectSeq(mpCall.fields, LAMBDA pair : pair[2] # <<>>)
        plain == [k \in 1..Len(filled) |-> GivenField(filled[k])]
    IN  CASE mpCall.kind = "file" -> <<GivenFile>> \o plain
          [] mpCall.kind = "url" -> plain
          [] mpCall.kind = "submit" -> plain \o <<GivenFile>>

\* C13 as stated: whatever the payload, file name, content type and fields, a
\* multipart reader given the returned boundary hands back exactly the
\* field names and values and the file bytes, name and type that went in.
C13_ReaderHandsBackWhatWentIn ==
    mpCall.called =>
        LET read == ReadMultipart(mpCall.body, mpCall.boundary)
        IN  read.ok /\ read.parts = GivenParts

\* The text of one part as C14 words it.
PartText(boundary, part) ==
    <<DASH, DASH, boundary, CR, LF>>
        \o <<HDR_DISPOSITION, QUOTE, part.name, QUOTE>>
        \o (IF part.isFile
            THEN <<HDR_FILENAME, QUOTE>> \o part.fileName
                    \o <<QUOTE, CR, LF, HDR_CONTENT_TYPE>> \o part.contentType
            ELSE <<>>)
        \o <<CR, LF, CR, LF>> \o part.value \o <<CR, LF>>

RECURSIVE PartsText(_, _)
PartsText(boundary, parts) ==
    IF parts = <<>> THEN <<>>
    ELSE PartText(boundary, Head(parts)) \o PartsText(boundary, Tail(parts))

\* C14: a body is its parts in insertion order, each the delimiter, the
\* Content-Disposition header (with filename and Content-Type for the file),
\* a blank line, the payload and CR LF, and then the closing delimiter, which
\* occurs once; the Content-Type header of the request names the boundary of
\* the body.
C14_PartsInOrderThenOneClosingDelimiter ==
    mpCall.called =>
        LET closing == <<DASH, DASH, mpCall.boundary, DASH, DASH, CR, LF>>
        IN  /\ mpCall.body = PartsText(mpCall.boundary, GivenParts) \o closing
            /\ Cardinality(Positions(mpCall.body, closing)) = 1
            /\ mpCall.contentType = <<"multipart/form-data; boundary=", mpCall.body[3]>>

\* C14 happens: a conversion submitted with every optional field set, so the
\* file part comes after seven fields.
C14_SubmitWithSevenFields ==
    /\ mpCall.called
    /\ mpCall.kind = "submit"
    /\ Len(GivenParts) = 8
    /\ GivenParts[8].isFile
    /\ mpCall.fileBuffer = <<CR, LF, CR, LF, "a">>

====
